---- MODULE Spec2Model ----
(***************************************************************************)
(* Model of fast-rlm's recursive orchestration engine:                     *)
(*   - the per-run step loop of subagent()            (src/subagents.ts)   *)
(*   - the process-wide usage accumulator             (src/usage.ts)       *)
(*   - the event log written by Logger                (src/logging.ts)     *)
(*   - the ParallelExecutor batcher                   (src/parallel.ts)    *)
(*                                                                         *)
(* Strings are sequences of tokens.  The token "E" stands for the          *)
(* substring "Error", "D" for the text "MAXIMUM DEPTH REACHED. ...",       *)
(* every other token for ordinary text; one token counts as one character  *)
(* for String.length and String.slice.                                     *)
(***************************************************************************)
EXTENDS Integers, Sequences, FiniteSets, TLC

VARIABLES
    runs,          \* run id -> activation record of one subagent() call
    globalUsage,   \* usage.ts: let globalUsage
    log,           \* the events written through pino, in emission order
    proc,          \* the main block of subagents.ts: running / exited
    MAX_DEPTH,     \* rlm_config.yaml max_depth, fixed when the process starts
    ev,            \* the operation performed by the last step
    tr,            \* input and output of a stand-alone truncateText call
    gate,          \* input and output of a stand-alone shouldUseParallelExecution call
    acct,          \* the trackUsage / getTotalUsage calls made since resetUsage
    config,        \* ParallelExecutor.config
    pendingQueries,\* ParallelExecutor.pendingQueries, in insertion order
    batchTimeout,  \* ParallelExecutor.batchTimeout: does it hold a timer handle
    timers,        \* setTimeout callbacks armed, neither run nor cleared yet
    stats,         \* ParallelExecutor.stats
    queries,       \* every promise returned by queueQuery
    cohorts,       \* the activations of flushBatch that drained something
    execs,         \* the invocations of subagentFn
    callbacks,     \* the invocations of onParallelStart / onParallelComplete
    groupIds       \* number of ids generateParallelGroupId has produced

engineVars == <<runs, globalUsage, log, proc, MAX_DEPTH>>
parVars == <<config, pendingQueries, batchTimeout, timers, stats, queries, cohorts, execs,
             callbacks, groupIds>>
auxVars == <<tr, gate, acct>>
vars == <<runs, globalUsage, log, proc, MAX_DEPTH, ev, tr, gate, acct, config, pendingQueries, batchTimeout,
         timers,
          stats, queries, cohorts, execs, callbacks, groupIds>>

(***************************************************************************)
(* Configuration (rlm_config.yaml, read once by loadConfig)                *)
(***************************************************************************)
MAX_CALLS == 2
TRUNCATE_LEN == 2
MAX_MONEY_SPENT == 1
MAX_COMPLETION_TOKENS == 1
MAX_PROMPT_TOKENS == 1

(***************************************************************************)
(* Bounds of the model                                                     *)
(***************************************************************************)
MaxRuns == 2      \* subagent() activations per process
MaxDepthChoice == 1  \* largest max_depth tried
MaxOut == 1       \* tokens the generated code prints in one step
MaxLen == 3       \* length of the texts given to truncateText alone
MaxLimit == 3     \* largest truncate_len given to truncateText alone

Chars == {"a"}
NoRun == 0
RunIds == 1..MaxRuns

Max(a, b) == IF a >= b THEN a ELSE b
Min(a, b) == IF a <= b THEN a ELSE b

(***************************************************************************)
(* String helpers (JavaScript semantics)                                   *)
(***************************************************************************)
\* String.prototype.slice(start) with one argument
Slice(s, start) ==
    LET from == IF start < 0 THEN Max(Len(s) + start, 0) ELSE Min(start, Len(s))
    IN  SubSeq(s, from + 1, Len(s))

\* String.prototype.includes
Includes(s, sub) ==
    \E k \in 0..(Len(s) - Len(sub)) : SubSeq(s, k + 1, k + Len(sub)) = sub

EMPTY_OUTPUT == <<"[EMPTY OUTPUT]">>
FULL_OUTPUT == <<"[FULL OUTPUT SHOWN]... ">>
TRUNCATED(limit) == <<"[TRUNCATED: Last ", ToString(limit), " chars shown].. ">>

truncateText(text, limit) ==
    IF Len(text) > limit
    THEN TRUNCATED(limit) \o Slice(text, 0 - limit)
    ELSE IF Len(text) = 0
         THEN EMPTY_OUTPUT
         ELSE FULL_OUTPUT \o text

(***************************************************************************)
(* usage.ts: the process-wide accumulator                                  *)
(***************************************************************************)
\* a cost the provider did not report (call_llm.ts: `cost ?? undefined`)
Undefined == 0 - 1
\* the IEEE value of `number + undefined`
NaN == 0 - 2

Usage(p, c, k) ==
    [prompt_tokens |-> p, completion_tokens |-> c, total_tokens |-> p + c,
     cached_tokens |-> 0, reasoning_tokens |-> 0, cost |-> k]

\* JavaScript `a + b` on number | undefined
AddNum(a, b) ==
    IF a = NaN \/ a = Undefined \/ b = NaN \/ b = Undefined THEN NaN ELSE a + b

\* JavaScript `a > b` on number | undefined: false when a is NaN or undefined
GreaterThan(a, b) == a # NaN /\ a # Undefined /\ a > b

zeroUsage == Usage(0, 0, 0)

\* variant: `globalUsage.f = usage.f`, the delta replaces the total
trackUsageOverwrite(g, usage) == usage

trackUsage(g, usage) ==
    [prompt_tokens     |-> g.prompt_tokens + usage.prompt_tokens,
     completion_tokens |-> g.completion_tokens + usage.completion_tokens,
     total_tokens      |-> g.total_tokens + usage.total_tokens,
     cached_tokens     |-> g.cached_tokens + usage.cached_tokens,
     reasoning_tokens  |-> g.reasoning_tokens + usage.reasoning_tokens,
     cost              |-> AddNum(g.cost, usage.cost)]

\* variant: the totals of a fresh accumulator are returned
getTotalUsageFresh(g) == zeroUsage

getTotalUsage(g) == g

resetUsage == zeroUsage

\* the usage records a provider response can carry
Usages ==
    { Usage(0, 0, Undefined), Usage(2, 0, 0), Usage(0, 2, 0), Usage(0, 0, 2) }

\* subagents.ts: const noUsage (step 0)
noUsage == Usage(0, 0, Undefined)

\* variant: the prompt-token ceiling is not compared
budgetErrorNoPrompt(totalUsage) ==
    IF totalUsage.cost # Undefined /\ GreaterThan(totalUsage.cost, MAX_MONEY_SPENT)
    THEN "Budget exceeded"
    ELSE IF GreaterThan(totalUsage.completion_tokens, MAX_COMPLETION_TOKENS)
         THEN "Completion token budget exceeded"
         ELSE ""

(***************************************************************************)
(* The three ceiling checks of the step loop, in the order of the code.    *)
(* "" when no ceiling is exceeded, else the error that is thrown.          *)
(***************************************************************************)
budgetError(totalUsage) ==
    IF totalUsage.cost # Undefined /\ GreaterThan(totalUsage.cost, MAX_MONEY_SPENT)
    THEN "Budget exceeded"
    ELSE IF GreaterThan(totalUsage.completion_tokens, MAX_COMPLETION_TOKENS)
         THEN "Completion token budget exceeded"
         ELSE IF GreaterThan(totalUsage.prompt_tokens, MAX_PROMPT_TOKENS)
              THEN "Prompt token budget exceeded"
              ELSE ""

BudgetErrors ==
    {"Budget exceeded", "Completion token budget exceeded", "Prompt token budget exceeded"}
STEPS_EXHAUSTED == "Did not finish the function stack before subagent died"
API_ERROR == "API call failed"

(***************************************************************************)
(* Values held by the sandbox                                              *)
(***************************************************************************)
None == [kind |-> "none", v |-> ""]
\* a Python str/int crosses to JavaScript as a primitive, a list/dict as a
\* PyProxy, an int beyond 2^53 as a BigInt
FinalVals ==
    {[kind |-> "prim", v |-> "4"], [kind |-> "pyproxy", v |-> "L"],
     [kind |-> "bigint", v |-> "B"]}

\* JSON.stringify throws a TypeError on a BigInt
JSONStringifyThrows(x) == x.kind = "bigint"
SERIALIZE_ERROR == "Do not know how to serialize a BigInt"
\* JSON.stringify writes NaN as null
Null == 0 - 3
JSONNumber(x) == IF x = NaN THEN Null ELSE x

\* variant: the proxy is destroyed instead of converted
toJsDestroyed(x) == IF x.kind = "pyproxy" THEN None ELSE x

\* `if (result && typeof result.toJs === 'function') result = result.toJs()`
toJs(x) == IF x.kind = "pyproxy" THEN [kind |-> "js", v |-> x.v] ELSE x

(***************************************************************************)
(* Transcript messages                                                     *)
(***************************************************************************)
Msg(role, kind, content) == [role |-> role, kind |-> kind, content |-> content]
PrimingMsg == Msg("user", "priming", <<"ctx">>)
AssistantMsg(success) ==
    Msg("assistant", "assistant", IF success THEN <<"repl">> ELSE <<"text">>)
\* variant: an empty output is reported instead of the corrective instruction
CorrectiveMsgAsOutput == Msg("user", "output", <<"Output: ">> \o EMPTY_OUTPUT)

CorrectiveMsg ==
    Msg("user", "corrective",
        <<"E", ": We could not extract code because you may not have used repl block!">>)
OutputMsg(truncatedText) == Msg("user", "output", <<"Output: ">> \o truncatedText)

\* variant: the new message takes the place of the last one
pushOverLast(messages, message) ==
    IF messages = <<>> THEN <<message>> ELSE [messages EXCEPT ![Len(messages)] = message]

\* messages.push(message)
push(messages, message) == Append(messages, message)

(***************************************************************************)
(* logging.ts: events                                                      *)
(***************************************************************************)
Event(rid, r, type, step, hasOutput, output, hasError, usage, result) ==
    [run_id |-> rid, parent_run_id |-> r.parent, depth |-> r.depth,
     event_type |-> type, step |-> step, hasOutput |-> hasOutput, output |-> output,
     hasError |-> hasError, usage |-> usage, result |-> result]

\* Logger.logStep: "execution_result" when data.output is defined, else "code_generated"
logStep(rid, r, step, hasOutput, output, hasError, usage) ==
    Event(rid, r, IF hasOutput THEN "execution_result" ELSE "code_generated",
          step, hasOutput, output, hasError, usage, None)

logFinalResult(rid, r, result) ==
    Event(rid, r, "final_result", 0 - 1, FALSE, <<>>, "none", noUsage, result)

logAgentStart(rid, r) ==
    Event(rid, r, "agent_start", 0 - 1, FALSE, <<>>, "none", noUsage, None)

logAgentEnd(rid, r) ==
    Event(rid, r, "agent_end", 0 - 1, FALSE, <<>>, "none", noUsage, None)

(***************************************************************************)
(* subagent(): one activation                                              *)
(***************************************************************************)
\* variant: the Logger is created without the parent's run id
NewRunNoParent(depth, parent, spawnStep) ==
    [depth |-> depth, parent |-> NoRun, spawnStep |-> spawnStep,
     pc |-> "init", i |-> 0, step |-> 0 - 1, calls |-> 0,
     messages |-> <<>>, stdoutBuffer |-> <<>>,
     finalSet |-> FALSE, finalVal |-> None,
     usage |-> noUsage, result |-> None, err |-> "", consumed |-> FALSE]

\* the locals of subagent() right after `new Logger(...)`
NewRun(depth, parent, spawnStep) ==
    [depth |-> depth, parent |-> parent, spawnStep |-> spawnStep,
     pc |-> "init", i |-> 0, step |-> 0 - 1, calls |-> 0,
     messages |-> <<>>, stdoutBuffer |-> <<>>,
     finalSet |-> FALSE, finalVal |-> None,
     usage |-> noUsage, result |-> None, err |-> "", consumed |-> FALSE]

\* the depth-exceeded text llm_query writes to the captured output
DEPTH_MARKER == <<"E", "D">>
\* message of the Error llm_query throws
DEPTH_ERROR == <<"D">>

\* variant: the exception is swallowed without a trace in the output
runPythonCatchSilent(stdoutBuffer, message) == stdoutBuffer

\* catch block around runPythonAsync: stdoutBuffer += `\nError: ${error.message} `
runPythonCatch(stdoutBuffer, message) == stdoutBuffer \o <<"E">> \o message

\* subagent() returns `result`: its sandbox and captured output go out of scope
Return(r, result) ==
    [r EXCEPT !.pc = "done", !.result = result, !.stdoutBuffer = <<>>]

\* subagent() throws `message`: its sandbox and captured output go out of scope
Throw(r, message) ==
    [r EXCEPT !.pc = "failed", !.err = message, !.stdoutBuffer = <<>>]

\* variant: the loop counter is not advanced
LoopNextNoIncrement(rid, r) ==
    IF r.i + 1 < MAX_CALLS
    THEN [run |-> [r EXCEPT !.pc = "llm"], events |-> <<>>]
    ELSE [run |-> Throw([r EXCEPT !.i = r.i + 1], STEPS_EXHAUSTED),
          events |-> <<logAgentEnd(rid, r)>>]

\* variant: the loop bound is `i <= MAX_CALLS`
LoopNextOffByOne(rid, r) ==
    IF r.i + 1 <= MAX_CALLS
    THEN [run |-> [r EXCEPT !.i = r.i + 1, !.pc = "llm"], events |-> <<>>]
    ELSE [run |-> Throw([r EXCEPT !.i = r.i + 1], STEPS_EXHAUSTED),
          events |-> <<logAgentEnd(rid, r)>>]

\* `for (...; i < MAX_CALLS; i++)` falling through to logAgentEnd(); throw
LoopNext(rid, r) ==
    IF r.i + 1 < MAX_CALLS
    THEN [run |-> [r EXCEPT !.i = r.i + 1, !.pc = "llm"], events |-> <<>>]
    ELSE [run |-> Throw([r EXCEPT !.i = r.i + 1], STEPS_EXHAUSTED),
          events |-> <<logAgentEnd(rid, r)>>]

\* variant: the flag looks for "Exception"
HasErrorException(stdoutBuffer) == Includes(stdoutBuffer, <<"Exception">>)

\* line 242: stdoutBuffer.includes("Error")
HasError(stdoutBuffer) == Includes(stdoutBuffer, <<"E">>)

\* variant: an error in the captured output is reported before the final value
\* is looked at
FinishStepErrorFirst(rid, r) ==
    LET truncatedText == truncateText(r.stdoutBuffer, TRUNCATE_LEN)
        hasError == HasError(r.stdoutBuffer)
    IN
    IF r.finalSet /\ ~hasError
    THEN LET result == toJs(r.finalVal) IN
         [run |-> Return([r EXCEPT !.step = r.i + 1], result),
          events |-> << logStep(rid, r, r.i + 1, FALSE, <<>>, "none", r.usage),
                        logFinalResult(rid, r, result),
                        logAgentEnd(rid, r) >>]
    ELSE LET r2 == [r EXCEPT !.step = r.i + 1,
                             !.messages = push(@, OutputMsg(truncatedText))]
             nx == LoopNext(rid, r2)
         IN  [run |-> nx.run,
              events |-> << logStep(rid, r, r.i + 1, TRUE, truncatedText,
                                    IF hasError THEN "true" ELSE "false", r.usage) >>
                         \o nx.events]

\* lines 221-257: truncate, final-value check, log, append output
FinishStep(rid, r) ==
    LET truncatedText == truncateText(r.stdoutBuffer, TRUNCATE_LEN) IN
    IF r.finalSet
    THEN LET result == toJs(r.finalVal) IN
         [run |-> Return([r EXCEPT !.step = r.i + 1], result),
          events |-> << logStep(rid, r, r.i + 1, FALSE, <<>>, "none", r.usage),
                        logFinalResult(rid, r, result),
                        logAgentEnd(rid, r) >>]
    ELSE LET hasError == HasError(r.stdoutBuffer)
             r2 == [r EXCEPT !.step = r.i + 1,
                             !.messages = push(@, OutputMsg(truncatedText))]
             nx == LoopNext(rid, r2)
         IN  [run |-> nx.run,
              events |-> << logStep(rid, r, r.i + 1, TRUE, truncatedText,
                                    IF hasError THEN "true" ELSE "false", r.usage) >>
                         \o nx.events]

(***************************************************************************)
(* State                                                                   *)
(***************************************************************************)
Ev(op, rid, child, raised, usage) ==
    [op |-> op, run |-> rid, child |-> child, raised |-> raised, usage |-> usage,
     success |-> FALSE, ended |-> FALSE, captured |-> <<>>, arg |-> None,
     again |-> FALSE]
\* the step's runPythonAsync has ended with `captured` in stdoutBuffer
Ended(e, captured) == [e EXCEPT !.ended = TRUE, !.captured = captured]
NoEv == Ev("init", NoRun, NoRun, FALSE, noUsage)

NoTr == [pc |-> "idle", text |-> <<>>, limit |-> 0, out |-> <<>>]
NoGate == [pc |-> "idle", currentDepth |-> 0, maxDepth |-> 0, maxBudget |-> 0, out |-> FALSE]
NoAcct ==
    [deltas |-> <<>>, snapshots |-> <<>>, era |-> 0, heap |-> <<zeroUsage>>, cur |-> 1,
     mods |-> 0]
AuxIdle == tr = NoTr /\ gate = NoGate /\ acct = NoAcct
\* an operation of the ParallelExecutor
ParEv(op) == [NoEv EXCEPT !.op = op]

zeroStats ==
    [totalQueries |-> 0, parallelBatches |-> 0, sequentialQueries |-> 0,
     totalParallelQueries |-> 0]

\* no ParallelExecutor in use
ParIdle ==
    /\ config = [maxParallelChildren |-> 0]
    /\ pendingQueries = <<>>
    /\ batchTimeout = FALSE
    /\ timers = 0
    /\ stats = zeroStats
    /\ queries = <<>>
    /\ cohorts = <<>>
    /\ execs = <<>>
    /\ callbacks = <<>>
    /\ groupIds = 0

\* nothing written to the --output file
NoFile ==
    [written |-> FALSE, results |-> None, hasError |-> FALSE, error |-> "",
     usage |-> zeroUsage]

\* the main block before `out = await subagent(...)`; fatalError "" is null
NoProc ==
    [state |-> "start", exitCode |-> 0 - 1, fatalError |-> "", out |-> None,
     outputFile |-> FALSE, effects |-> <<>>, file |-> NoFile]

\* no engine run in progress
EngineIdle ==
    /\ runs = <<>>
    /\ globalUsage = zeroUsage
    /\ log = <<>>
    /\ proc = NoProc
    /\ MAX_DEPTH = 0

Init ==
    /\ runs = <<>>
    /\ globalUsage = zeroUsage
    /\ log = <<>>
    /\ proc = NoProc
    /\ MAX_DEPTH \in 0..MaxDepthChoice
    /\ ev = NoEv
    /\ AuxIdle
    /\ ParIdle

Running == proc.state = "running"
Terminal(r) == r.pc \in {"done", "failed"}

\* replace run rid by r and append the events it emitted
Commit(rid, r, events) ==
    /\ runs' = [runs EXCEPT ![rid] = r]
    /\ log' = log \o events

(***************************************************************************)
(* main block: resetUsage(); out = await subagent(query_context)           *)
(***************************************************************************)
Main ==
    /\ proc.state = "start"
    /\ LET r == NewRun(0, NoRun, 0) IN
       /\ runs' = <<r>>
       /\ log' = log \o <<logAgentStart(1, r)>>
    /\ globalUsage' = resetUsage
    /\ proc' = [proc EXCEPT !.state = "running"]
    /\ ev' = Ev("main", 1, NoRun, FALSE, noUsage)
    /\ UNCHANGED <<MAX_DEPTH, auxVars, parVars>>

(***************************************************************************)
(* lines 79-166: sandbox set-up and the priming step 0 (no model call)     *)
(***************************************************************************)
Step0(rid) ==
    /\ Running
    /\ runs[rid].pc = "init"
    /\ LET r == runs[rid]
           r1 == [r EXCEPT !.messages = <<PrimingMsg>>, !.step = 0,
                           !.stdoutBuffer = <<"ctx">>]
           r2 == IF 0 < MAX_CALLS
                 THEN [r1 EXCEPT !.pc = "llm"]
                 ELSE Throw(r1, STEPS_EXHAUSTED)
       IN  Commit(rid, r2,
                  <<logStep(rid, r, 0, TRUE, <<"ctx">>, "false", noUsage)>>
                  \o (IF 0 < MAX_CALLS THEN <<>> ELSE <<logAgentEnd(rid, r)>>))
    /\ ev' = Ev("step0", rid, NoRun, FALSE, noUsage)
    /\ UNCHANGED <<globalUsage, proc, MAX_DEPTH, auxVars, parVars>>

(***************************************************************************)
(* lines 169-208: one model call returns                                   *)
(***************************************************************************)
AfterGenerate(rid, r0, success, usage, total) ==
    LET r == [r0 EXCEPT !.calls = @ + 1, !.usage = usage,
                        !.messages = push(@, AssistantMsg(success))]
    IN  IF budgetError(total) # ""
        THEN [run |-> Throw(r, budgetError(total)), events |-> <<>>]
        ELSE IF ~success
             THEN LET r2 == [r EXCEPT !.step = r.i + 1,
                                      !.messages = push(@, CorrectiveMsg)]
                      nx == LoopNext(rid, r2)
                  IN  [run |-> nx.run,
                       events |-> <<logStep(rid, r, r.i + 1, FALSE, <<>>, "none", usage)>>
                                  \o nx.events]
             ELSE [run |-> [r EXCEPT !.stdoutBuffer = <<>>, !.pc = "exec"],
                   events |-> <<>>]

GenerateCode(rid, success, usage) ==
    /\ Running
    /\ runs[rid].pc = "llm"
    /\ globalUsage' = trackUsage(globalUsage, usage)
    /\ LET res == AfterGenerate(rid, runs[rid], success, usage,
                                getTotalUsage(globalUsage'))
       IN  Commit(rid, res.run, res.events)
    /\ ev' = [Ev("generate_code", rid, NoRun, FALSE, usage) EXCEPT !.success = success]
    /\ UNCHANGED <<proc, MAX_DEPTH, auxVars, parVars>>

\* generate_code rethrows an API failure; subagent() does not catch it
GenerateCodeThrows(rid) ==
    /\ Running
    /\ runs[rid].pc = "llm"
    /\ Commit(rid, Throw([runs[rid] EXCEPT !.calls = @ + 1], API_ERROR), <<>>)
    /\ ev' = Ev("generate_code_throws", rid, NoRun, TRUE, noUsage)
    /\ UNCHANGED <<globalUsage, proc, MAX_DEPTH, auxVars, parVars>>

(***************************************************************************)
(* The generated code running in the sandbox (await pyodide.runPythonAsync)*)
(* It is arbitrary Python: it prints, calls FINAL / FINAL_VAR, calls       *)
(* llm_query, handles or does not handle the exceptions it gets, raises,   *)
(* or ends.  It awaits every llm_query call it makes, as the system prompt  *)
(* instructs.                                                              *)
(***************************************************************************)
Executing(rid) == Running /\ runs[rid].pc = "exec"

\* the code of the current step is suspended in `await llm_query(...)` (alone or
\* under asyncio.gather): a child spawned by this step has not been settled
Awaiting(rid) ==
    \E cid \in DOMAIN runs :
        /\ runs[cid].parent = rid
        /\ runs[cid].spawnStep = runs[rid].i
        /\ ~runs[cid].consumed
Active(rid) == Executing(rid) /\ ~Awaiting(rid)

\* pyodide stdout callback: stdoutBuffer += text + "\n"
PyPrint(rid, c) ==
    /\ Active(rid)
    /\ Len(runs[rid].stdoutBuffer) < MaxOut
    /\ Commit(rid, [runs[rid] EXCEPT !.stdoutBuffer = Append(@, c)], <<>>)
    /\ ev' = Ev("print", rid, NoRun, FALSE, noUsage)
    /\ UNCHANGED <<globalUsage, proc, MAX_DEPTH, auxVars, parVars>>

\* setup_code: def FINAL(x) / def FINAL_VAR(x)
FINAL(r, x) == [r EXCEPT !.finalVal = x, !.finalSet = TRUE]

\* variant: a value already set is kept
FINAL_VARFirstWins(r, x) ==
    IF r.finalSet THEN r ELSE [r EXCEPT !.finalVal = x, !.finalSet = TRUE]

FINAL_VAR(r, x) == [r EXCEPT !.finalVal = x, !.finalSet = TRUE]

CallFinal(rid, fn, x) ==
    /\ Active(rid)
    /\ Commit(rid, IF fn = "FINAL" THEN FINAL(runs[rid], x) ELSE FINAL_VAR(runs[rid], x),
              <<>>)
    /\ ev' = [Ev(fn, rid, NoRun, FALSE, noUsage) EXCEPT !.arg = x,
                                                        !.again = runs[rid].finalSet]
    /\ UNCHANGED <<globalUsage, proc, MAX_DEPTH, auxVars, parVars>>

\* runPythonAsync rejects with `message`: the catch block, then lines 221-257
Raise(rid, r, message) ==
    LET res == FinishStep(rid, [r EXCEPT !.stdoutBuffer = runPythonCatch(@, message)])
    IN  Commit(rid, res.run, res.events)

\* variant: `subagent_depth > MAX_DEPTH`
DepthExceededOffByOne(subagent_depth) == subagent_depth > MAX_DEPTH

\* llm_query line 88
DepthExceeded(subagent_depth) == subagent_depth >= MAX_DEPTH
\* llm_query line 89
WriteDepthMarker(stdoutBuffer) == stdoutBuffer \o DEPTH_MARKER

\* llm_query at depth >= MAX_DEPTH: marker, throw.  `handled`: the generated
\* code catches the exception (try/except) and goes on.
LlmQueryRefused(rid, handled) ==
    /\ Active(rid)
    /\ DepthExceeded(runs[rid].depth)
    /\ Len(runs[rid].stdoutBuffer) < MaxOut
    /\ LET r == [runs[rid] EXCEPT !.stdoutBuffer = WriteDepthMarker(@)] IN
       /\ IF handled THEN Commit(rid, r, <<>>) ELSE Raise(rid, r, DEPTH_ERROR)
       /\ ev' = IF handled
                THEN Ev("llm_query", rid, NoRun, TRUE, noUsage)
                ELSE Ended(Ev("llm_query", rid, NoRun, TRUE, noUsage),
                           runPythonCatch(r.stdoutBuffer, DEPTH_ERROR))
    /\ UNCHANGED <<globalUsage, proc, MAX_DEPTH, auxVars, parVars>>

\* llm_query below MAX_DEPTH: subagent(context, subagent_depth + 1, logger.run_id)
\* runs up to its first await
Spawn(rid, limit) ==
    /\ Executing(rid)
    /\ ~DepthExceeded(runs[rid].depth)
    /\ Len(runs) < limit
    /\ LET cid == Len(runs) + 1
           c == NewRun(runs[rid].depth + 1, rid, runs[rid].i)
       IN  /\ runs' = Append(runs, c)
           /\ log' = log \o <<logAgentStart(cid, c)>>
           /\ ev' = Ev("llm_query", rid, cid, FALSE, noUsage)
    /\ UNCHANGED <<globalUsage, proc, MAX_DEPTH, auxVars, parVars>>

LlmQuerySpawn(rid) == Spawn(rid, MaxRuns)

\* variant: the child's result is appended to the caller's transcript
ReturnToCallerAppends(messages, output) ==
    Append(messages, Msg("user", "child_result", <<output.kind>>))

\* `const output = await subagent(...); return output;` seen from the parent's
\* transcript: the value goes to the Python caller only
ReturnToCaller(messages, output) == messages

\* variant: a failed child hands its (missing) result to the caller
RejectsNever(c) == FALSE

\* `await subagent(...)` in llm_query rejects when the child threw
Rejects(c) == c.pc = "failed"

\* the awaited child has returned or thrown
LlmQuerySettle(rid, cid, handled) ==
    /\ Executing(rid)
    /\ cid \in DOMAIN runs
    /\ runs[cid].parent = rid
    /\ runs[cid].spawnStep = runs[rid].i
    /\ Terminal(runs[cid])
    /\ ~runs[cid].consumed
    /\ LET c == [runs[cid] EXCEPT !.consumed = TRUE]
           r == runs[rid]
       IN  IF ~Rejects(c)
           THEN /\ handled
                /\ runs' = [runs EXCEPT ![cid] = c,
                                        ![rid].messages = ReturnToCaller(@, c.result)]
                /\ log' = log
                /\ ev' = Ev("llm_query_return", rid, cid, FALSE, noUsage)
           ELSE IF handled
                THEN /\ runs' = [runs EXCEPT ![cid] = c]
                     /\ log' = log
                     /\ ev' = Ev("llm_query_return", rid, cid, TRUE, noUsage)
                ELSE LET captured == runPythonCatch(r.stdoutBuffer, <<c.err>>)
                         res == FinishStep(rid, [r EXCEPT !.stdoutBuffer = captured])
                     IN  /\ runs' = [runs EXCEPT ![cid] = c, ![rid] = res.run]
                         /\ log' = log \o res.events
                         /\ ev' = Ended(Ev("llm_query_return", rid, cid, TRUE, noUsage),
                                        captured)
    /\ UNCHANGED <<globalUsage, proc, MAX_DEPTH, auxVars, parVars>>

\* the generated code raises an exception of its own and does not handle it
PyError(rid) ==
    /\ Active(rid)
    /\ Raise(rid, runs[rid], <<"x">>)
    /\ ev' = Ended(Ev("py_error", rid, NoRun, TRUE, noUsage),
                   runPythonCatch(runs[rid].stdoutBuffer, <<"x">>))
    /\ UNCHANGED <<globalUsage, proc, MAX_DEPTH, auxVars, parVars>>

\* runPythonAsync resolves
ExecEnd(rid) ==
    /\ Active(rid)
    /\ LET res == FinishStep(rid, runs[rid]) IN Commit(rid, res.run, res.events)
    /\ ev' = Ended(Ev("exec_end", rid, NoRun, FALSE, noUsage), runs[rid].stdoutBuffer)
    /\ UNCHANGED <<globalUsage, proc, MAX_DEPTH, auxVars, parVars>>

(***************************************************************************)
(* main block: try / catch / finally / Deno.exit                           *)
(***************************************************************************)
\* the order of the finally block: Logger.flush, Deno.writeTextFile, Deno.exit;
\* an exception leaving the block ends the process before Deno.exit
ExitEffects(writes, uncaught) ==
    <<"flush">> \o (IF writes THEN <<"write">> ELSE <<>>)
        \o (IF uncaught THEN <<"uncaught">> ELSE <<"exit">>)

\* outputFile: whether --output names a file (read at line 281, used at 308)
RootExit(outputFile) ==
    /\ Running
    /\ Terminal(runs[1])
    /\ LET returned == runs[1].pc = "done"
           out == IF returned THEN runs[1].result ELSE None
           \* line 291: console.log("JSON_RESULT:" + JSON.stringify({results: out}))
           fatalError == IF ~returned THEN runs[1].err
                         ELSE IF JSONStringifyThrows(out) THEN SERIALIZE_ERROR
                         ELSE ""
           \* line 310: JSON.stringify({results: out ?? null, ...})
           uncaught == outputFile /\ JSONStringifyThrows(out)
           writes == outputFile /\ ~uncaught
           totalUsage == getTotalUsage(globalUsage)
       IN proc' = [state |-> "exited",
                   fatalError |-> fatalError,
                   out |-> out,
                   outputFile |-> outputFile,
                   effects |-> ExitEffects(writes, uncaught),
                   file |-> IF writes
                            THEN [written |-> TRUE,
                                  results |-> out,
                                  hasError |-> fatalError # "",
                                  error |-> fatalError,
                                  usage |-> [totalUsage EXCEPT !.cost = JSONNumber(@)]]
                            ELSE NoFile,
                   exitCode |-> IF uncaught \/ fatalError # "" THEN 1 ELSE 0]
    /\ ev' = Ev("exit", 1, NoRun, FALSE, noUsage)
    /\ UNCHANGED <<runs, globalUsage, log, MAX_DEPTH, auxVars, parVars>>

Next ==
    \/ Main
    \/ \E outputFile \in BOOLEAN : RootExit(outputFile)
    \/ \E rid \in DOMAIN runs : Step0(rid)
    \/ \E rid \in DOMAIN runs, success \in BOOLEAN, usage \in Usages :
          GenerateCode(rid, success, usage)
    \/ \E rid \in DOMAIN runs : GenerateCodeThrows(rid)
    \/ \E rid \in DOMAIN runs, c \in Chars : PyPrint(rid, c)
    \/ \E rid \in DOMAIN runs, fn \in {"FINAL", "FINAL_VAR"}, x \in FinalVals :
          CallFinal(rid, fn, x)
    \/ \E rid \in DOMAIN runs, handled \in BOOLEAN : LlmQueryRefused(rid, handled)
    \/ \E rid \in DOMAIN runs : LlmQuerySpawn(rid)
    \/ \E rid \in DOMAIN runs, cid \in DOMAIN runs, handled \in BOOLEAN :
          LlmQuerySettle(rid, cid, handled)
    \/ \E rid \in DOMAIN runs : PyError(rid)
    \/ \E rid \in DOMAIN runs : ExecEnd(rid)

Spec == Init /\ [][Next]_vars

(***************************************************************************)
(* The same engine with room for a deeper and wider tree of runs: every    *)
(* response carries code and costs nothing, the code spawns, takes the     *)
(* children's results, calls FINAL or ends.                                *)
(***************************************************************************)
MaxTreeRuns == 3     \* subagent() activations per process
MaxTreeDepth == 2    \* largest max_depth tried

InitTree ==
    /\ runs = <<>>
    /\ globalUsage = zeroUsage
    /\ log = <<>>
    /\ proc = NoProc
    /\ MAX_DEPTH \in 1..MaxTreeDepth
    /\ ev = NoEv
    /\ AuxIdle
    /\ ParIdle

NextTree ==
    \/ Main
    \/ \E rid \in DOMAIN runs : Step0(rid)
    \/ \E rid \in DOMAIN runs : GenerateCode(rid, TRUE, Usage(0, 0, 0))
    \/ \E rid \in DOMAIN runs : Spawn(rid, MaxTreeRuns)
    \/ \E rid \in DOMAIN runs, cid \in DOMAIN runs : LlmQuerySettle(rid, cid, TRUE)
    \/ \E rid \in DOMAIN runs : CallFinal(rid, "FINAL", [kind |-> "prim", v |-> "4"])
    \/ \E rid \in DOMAIN runs : ExecEnd(rid)
    \/ RootExit(FALSE)

SpecTree == InitTree /\ [][NextTree]_vars

(***************************************************************************)
(* The engine when every provider call returns a response and every code   *)
(* execution returns.  A response carries code and costs nothing or       *)
(* more completion tokens than the ceiling allows.  The event loop resumes *)
(* every activation whose awaited promise has settled.                     *)
(***************************************************************************)
MaxLiveRuns == 3   \* subagent() activations per process in SpecLive

NextLive ==
    \/ Main
    \/ \E rid \in DOMAIN runs : Step0(rid)
    \/ \E rid \in DOMAIN runs, usage \in {Usage(0, 0, 0), Usage(0, 2, 0)} :
          GenerateCode(rid, TRUE, usage)
    \/ \E rid \in DOMAIN runs : Spawn(rid, MaxLiveRuns)
    \/ \E rid \in DOMAIN runs : LlmQueryRefused(rid, FALSE)
    \/ \E rid \in DOMAIN runs, cid \in DOMAIN runs, handled \in BOOLEAN :
          LlmQuerySettle(rid, cid, handled)
    \/ \E rid \in DOMAIN runs : CallFinal(rid, "FINAL", [kind |-> "prim", v |-> "4"])
    \/ \E rid \in DOMAIN runs : ExecEnd(rid)
    \/ RootExit(FALSE)

SpecLive ==
    /\ Init
    /\ [][NextLive]_vars
    /\ WF_vars(Main)
    /\ WF_vars(RootExit(FALSE))
    /\ \A rid \in 1..MaxLiveRuns :
          /\ WF_vars(rid \in DOMAIN runs /\ Step0(rid))
          /\ WF_vars(/\ rid \in DOMAIN runs
                     /\ \E usage \in {Usage(0, 0, 0), Usage(0, 2, 0)} :
                           GenerateCode(rid, TRUE, usage))
          /\ WF_vars(/\ rid \in DOMAIN runs
                     /\ \E cid \in DOMAIN runs, handled \in BOOLEAN :
                           LlmQuerySettle(rid, cid, handled))
          /\ WF_vars(rid \in DOMAIN runs /\ ExecEnd(rid))

(***************************************************************************)
(* truncateText called on its own, for every text and limit                *)
(***************************************************************************)
TextChars == {"a", "b"}
Texts == UNION { [1..n -> TextChars] : n \in 0..MaxLen }

InitTrunc ==
    /\ EngineIdle
    /\ ParIdle
    /\ ev = NoEv
    /\ tr \in { [pc |-> "call", text |-> s, limit |-> t, out |-> <<>>] :
                 s \in Texts, t \in 0..MaxLimit }
    /\ gate = NoGate
    /\ acct = NoAcct

TruncateCall ==
    /\ tr.pc = "call"
    /\ tr' = [tr EXCEPT !.pc = "returned", !.out = truncateText(tr.text, tr.limit)]
    /\ ev' = Ev("truncateText", NoRun, NoRun, FALSE, noUsage)
    /\ UNCHANGED <<engineVars, parVars, gate, acct>>

NextTrunc == TruncateCall

SpecTrunc == InitTrunc /\ [][NextTrunc]_vars

(***************************************************************************)
(* parallel.ts: ParallelExecutor                                           *)
(*   queries[q]  : [context, state, value]   the promise of submission q   *)
(*   cohorts[k]  : [members, gid, batches, cur, pc, byFlush]               *)
(*   execs[e]    : [q, context, gid, cohort, state] one subagentFn call    *)
(* A group id is a number >= 1; NoGroup is the omitted argument.           *)
(***************************************************************************)
MaxQueries == 3          \* submissions per executor
MaxParallelChoice == 2   \* largest maxParallelChildren tried
NoGroup == 0

\* the n-th submission carries the context n
ContextOf(n) == n

\* generateParallelGroupId: `pg-${Date.now()}-${random}`, a new id at every call
generateParallelGroupId(produced) == produced + 1

\* the mock subagentFn of the tests: a result or an error made from the context
ResultFor(context) == [kind |-> "result", context |-> context]
ErrorFor(context) == [kind |-> "error", context |-> context]

\* variant: the configured limit is ignored
maxParallelUnlimited(n) == n

\* lines 159-161
maxParallel(n) ==
    IF config.maxParallelChildren > 0 THEN config.maxParallelChildren ELSE n

\* lines 167-170: for (i = 0; i < n; i += maxParallel) batches.push(slice(i, i + maxParallel))
Batches(qs, mp) ==
    LET n == Len(qs)
        nb == (n + mp - 1) \div mp
    IN  [k \in 1..nb |-> SubSeq(qs, (k - 1) * mp + 1, Min(k * mp, n))]

\* variant: only the first member of a chunk carries the group id
InvokeBatchFirstOnly(batch, parallelGroupId, k) ==
    [j \in 1..Len(batch) |->
        [q |-> batch[j], context |-> queries[batch[j]].context,
         gid |-> IF j = 1 THEN parallelGroupId ELSE NoGroup,
         cohort |-> k, state |-> "running"]]

\* batch.map(([id, query]) => this.subagentFn(query.context, parallelGroupId))
InvokeBatch(batch, parallelGroupId, k) ==
    [j \in 1..Len(batch) |->
        [q |-> batch[j], context |-> queries[batch[j]].context, gid |-> parallelGroupId,
         cohort |-> k, state |-> "running"]]

InitPar ==
    /\ EngineIdle
    /\ AuxIdle
    /\ ev = NoEv
    /\ config \in {[maxParallelChildren |-> m] : m \in 0..MaxParallelChoice}
    /\ pendingQueries = <<>>
    /\ batchTimeout = FALSE
    /\ timers = 0
    /\ stats = zeroStats
    /\ queries = <<>>
    /\ cohorts = <<>>
    /\ execs = <<>>
    /\ callbacks = <<>>
    /\ groupIds = 0

\* variant: the flush is never scheduled
queueQueryNoTimer(context) ==
    /\ Len(queries) < MaxQueries
    /\ queries' = Append(queries, [context |-> context, state |-> "pending",
                                  value |-> [kind |-> "none", context |-> 0]])
    /\ pendingQueries' = Append(pendingQueries, Len(queries) + 1)
    /\ stats' = [stats EXCEPT !.totalQueries = @ + 1]
    /\ batchTimeout' = batchTimeout
    /\ timers' = timers
    /\ ev' = ParEv("queueQuery")
    /\ UNCHANGED <<engineVars, auxVars, config, cohorts, execs, callbacks, groupIds>>

\* variant: setTimeout is called whether or not a timer is scheduled
queueQueryAlwaysArms(context) ==
    /\ Len(queries) < MaxQueries
    /\ queries' = Append(queries, [context |-> context, state |-> "pending",
                                  value |-> [kind |-> "none", context |-> 0]])
    /\ pendingQueries' = Append(pendingQueries, Len(queries) + 1)
    /\ stats' = [stats EXCEPT !.totalQueries = @ + 1]
    /\ batchTimeout' = TRUE
    /\ timers' = timers + 1
    /\ ev' = ParEv("queueQuery")
    /\ UNCHANGED <<engineVars, auxVars, config, cohorts, execs, callbacks, groupIds>>

\* queueQuery(context); `if (this.batchTimeout === null) this.batchTimeout = setTimeout(...)`
queueQuery(context) ==
    /\ Len(queries) < MaxQueries
    /\ queries' = Append(queries, [context |-> context, state |-> "pending",
                                  value |-> [kind |-> "none", context |-> 0]])
    /\ pendingQueries' = Append(pendingQueries, Len(queries) + 1)
    /\ stats' = [stats EXCEPT !.totalQueries = @ + 1]
    /\ batchTimeout' = TRUE
    /\ timers' = IF batchTimeout THEN timers ELSE timers + 1
    /\ ev' = ParEv("queueQuery")
    /\ UNCHANGED <<engineVars, auxVars, config, cohorts, execs, callbacks, groupIds>>

\* variant: the pending set is left as it is
clearNothing(pending) == pending

\* line 133: this.pendingQueries.clear()
clear(pending) == <<>>

\* variant: a lone query takes the parallel path
flushBatchNoSinglePath(byFlush) ==
    /\ batchTimeout' = FALSE
    /\ pendingQueries' = <<>>
    /\ LET qs == pendingQueries
           k == Len(cohorts) + 1
       IN  IF Len(qs) = 0
           THEN UNCHANGED <<stats, cohorts, execs, callbacks, groupIds>>
           ELSE LET parallelGroupId == generateParallelGroupId(groupIds)
                    mp == maxParallel(Len(qs))
                    batches == Batches(qs, mp)
                IN  /\ groupIds' = groupIds + 1
                    /\ stats' = [stats EXCEPT !.parallelBatches = @ + 1,
                                              !.totalParallelQueries = @ + Len(qs)]
                    /\ callbacks' = Append(callbacks,
                           [kind |-> "start", gid |-> parallelGroupId,
                            count |-> Min(Len(qs), mp)])
                    /\ cohorts' = Append(cohorts,
                           [members |-> qs, gid |-> parallelGroupId, batches |-> batches,
                            cur |-> 1, pc |-> "batch", byFlush |-> byFlush])
                    /\ execs' = execs \o InvokeBatch(batches[1], parallelGroupId, k)
    /\ UNCHANGED <<engineVars, auxVars, config, queries>>

\* flushBatch up to its first await
flushBatch(byFlush) ==
    /\ batchTimeout' = FALSE
    /\ pendingQueries' = clear(pendingQueries)
    /\ LET qs == pendingQueries
           k == Len(cohorts) + 1
       IN  IF Len(qs) = 0
           THEN UNCHANGED <<stats, cohorts, execs, callbacks, groupIds>>
           ELSE IF Len(qs) = 1
           THEN /\ stats' = [stats EXCEPT !.sequentialQueries = @ + 1]
                /\ cohorts' = Append(cohorts,
                       [members |-> qs, gid |-> NoGroup, batches |-> <<qs>>, cur |-> 1,
                        pc |-> "single", byFlush |-> byFlush])
                /\ execs' = execs \o InvokeBatch(qs, NoGroup, k)
                /\ UNCHANGED <<callbacks, groupIds>>
           ELSE LET parallelGroupId == generateParallelGroupId(groupIds)
                    mp == maxParallel(Len(qs))
                    batches == Batches(qs, mp)
                IN  /\ groupIds' = groupIds + 1
                    /\ stats' = [stats EXCEPT !.parallelBatches = @ + 1,
                                              !.totalParallelQueries = @ + Len(qs)]
                    /\ callbacks' = Append(callbacks,
                           [kind |-> "start", gid |-> parallelGroupId,
                            count |-> Min(Len(qs), mp)])
                    /\ cohorts' = Append(cohorts,
                           [members |-> qs, gid |-> parallelGroupId, batches |-> batches,
                            cur |-> 1, pc |-> "batch", byFlush |-> byFlush])
                    /\ execs' = execs \o InvokeBatch(batches[1], parallelGroupId, k)
    /\ UNCHANGED <<engineVars, auxVars, config, queries>>

\* the setTimeout callback armed by queueQuery
TimerFires ==
    /\ timers > 0
    /\ timers' = timers - 1
    /\ flushBatch(FALSE)
    /\ ev' = ParEv("timer")

\* variant: the timer and the pending set are cleared, nothing is executed
flushDropsPending ==
    /\ batchTimeout' = FALSE
    /\ timers' = IF batchTimeout THEN timers - 1 ELSE timers
    /\ pendingQueries' = <<>>
    /\ ev' = ParEv("flush")
    /\ UNCHANGED <<engineVars, auxVars, config, stats, queries, cohorts, execs, callbacks,
                   groupIds>>

\* flush(): clearTimeout, then flushBatch
flush ==
    /\ timers' = IF batchTimeout THEN timers - 1 ELSE timers
    /\ flushBatch(TRUE)
    /\ ev' = ParEv("flush")

\* variant: the caller's promise is settled as soon as its own call returns
SubagentSettlesResolves(e, ok) ==
    /\ e \in DOMAIN execs
    /\ execs[e].state = "running"
    /\ execs' = [execs EXCEPT ![e].state = IF ok THEN "fulfilled" ELSE "rejected"]
    /\ queries' = [queries EXCEPT
           ![execs[e].q].state = IF ok THEN "resolved" ELSE "rejected",
           ![execs[e].q].value = IF ok THEN ResultFor(execs[e].context)
                                       ELSE ErrorFor(execs[e].context)]
    /\ ev' = ParEv("subagentFn")
    /\ UNCHANGED <<engineVars, auxVars, config, pendingQueries, batchTimeout, timers, stats,
                   cohorts, callbacks, groupIds>>

\* one subagentFn promise settles
SubagentSettles(e, ok) ==
    /\ e \in DOMAIN execs
    /\ execs[e].state = "running"
    /\ execs' = [execs EXCEPT ![e].state = IF ok THEN "fulfilled" ELSE "rejected"]
    /\ ev' = ParEv("subagentFn")
    /\ UNCHANGED <<engineVars, auxVars, config, pendingQueries, batchTimeout, timers, stats, queries,
                   cohorts, callbacks, groupIds>>

\* the execs of cohort k's current batch, in batch order
BatchExecs(k) ==
    LET batch == cohorts[k].batches[cohorts[k].cur]
    IN  [j \in 1..Len(batch) |->
            CHOOSE e \in DOMAIN execs : execs[e].cohort = k /\ execs[e].q = batch[j]]

\* variant: Promise.all semantics, one rejection rejects the whole chunk
SettleBatchAll(k) ==
    LET batch == cohorts[k].batches[cohorts[k].cur]
        es == BatchExecs(k)
        failed == \E j \in 1..Len(batch) : execs[es[j]].state = "rejected"
    IN  [q \in DOMAIN queries |->
            IF \E j \in 1..Len(batch) : batch[j] = q
            THEN IF failed
                 THEN [queries[q] EXCEPT !.state = "rejected",
                                         !.value = ErrorFor(queries[q].context)]
                 ELSE [queries[q] EXCEPT !.state = "resolved",
                                         !.value = ResultFor(queries[q].context)]
            ELSE queries[q]]

\* results.forEach((result, i) => batch[i].resolve / reject), and the single path
SettleBatch(k) ==
    LET batch == cohorts[k].batches[cohorts[k].cur]
        es == BatchExecs(k)
        pos(q) == CHOOSE j \in 1..Len(batch) : batch[j] = q
    IN  [q \in DOMAIN queries |->
            IF \E j \in 1..Len(batch) : batch[j] = q
            THEN LET e == execs[es[pos(q)]] IN
                 IF e.state = "fulfilled"
                 THEN [queries[q] EXCEPT !.state = "resolved", !.value = ResultFor(e.context)]
                 ELSE [queries[q] EXCEPT !.state = "rejected", !.value = ErrorFor(e.context)]
            ELSE queries[q]]

\* variant: the await ends as soon as one promise of the chunk has settled
AnySettled(k) ==
    \E j \in DOMAIN BatchExecs(k) : execs[BatchExecs(k)[j]].state # "running"

\* `await Promise.allSettled(batch.map(...))`: every promise of the chunk has settled
AllSettled(k) ==
    \A j \in DOMAIN BatchExecs(k) : execs[BatchExecs(k)[j]].state # "running"

\* flushBatch resumes after `await subagentFn(...)` / `await Promise.allSettled(...)`
BatchSettled(k) ==
    /\ k \in DOMAIN cohorts
    /\ cohorts[k].pc \in {"single", "batch"}
    /\ AllSettled(k)
    /\ queries' = SettleBatch(k)
    /\ LET c == cohorts[k] IN
       IF c.pc = "batch" /\ c.cur < Len(c.batches)
       THEN /\ cohorts' = [cohorts EXCEPT ![k].cur = c.cur + 1]
            /\ execs' = execs \o InvokeBatch(c.batches[c.cur + 1], c.gid, k)
            /\ UNCHANGED callbacks
       ELSE /\ cohorts' = [cohorts EXCEPT ![k].pc = "done"]
            /\ execs' = execs
            /\ callbacks' = IF c.pc = "batch"
                            THEN Append(callbacks, [kind |-> "complete", gid |-> c.gid,
                                                    count |-> Len(c.members)])
                            ELSE callbacks
    /\ ev' = ParEv("settled")
    /\ UNCHANGED <<engineVars, auxVars, config, pendingQueries, batchTimeout, timers, stats, groupIds>>

\* variant: the pending set is cleared with the counters
resetStatsAndPending ==
    /\ stats' = zeroStats
    /\ pendingQueries' = <<>>
    /\ ev' = ParEv("resetStats")
    /\ UNCHANGED <<engineVars, auxVars, config, batchTimeout, timers, queries, cohorts,
                   execs, callbacks, groupIds>>

resetStats ==
    /\ stats' = zeroStats
    /\ ev' = ParEv("resetStats")
    /\ UNCHANGED <<engineVars, auxVars, config, pendingQueries, batchTimeout, timers, queries, cohorts,
                   execs, callbacks, groupIds>>

NextPar ==
    \/ \E context \in {ContextOf(Len(queries) + 1)} : queueQuery(context)
    \/ TimerFires
    \/ flush
    \/ \E e \in DOMAIN execs, ok \in BOOLEAN : SubagentSettles(e, ok)
    \/ \E k \in DOMAIN cohorts : BatchSettled(k)
    \/ resetStats

SpecPar == InitPar /\ [][NextPar]_vars

\* The event loop runs every armed timer and every continuation whose promise
\* has settled; every subagentFn call returns.  Nothing obliges a caller to
\* submit, to call flush() or to call resetStats().
SpecParLive ==
    /\ InitPar
    /\ [][NextPar]_vars
    /\ WF_vars(TimerFires)
    /\ \A e \in 1..MaxQueries : WF_vars(\E ok \in BOOLEAN : SubagentSettles(e, ok))
    /\ \A k \in 1..MaxQueries : WF_vars(BatchSettled(k))

(***************************************************************************)
(* shouldUseParallelExecution called on its own, for every configuration   *)
(***************************************************************************)
MaxGateDepth == 4        \* largest currentDepth and maxDepth tried
Budgets == {0 - 1, 0, 1}

\* variant: the depth test is `currentDepth >= maxDepth`
shouldUseParallelExecutionAtMaxDepth(cfg) ==
    IF cfg.currentDepth >= cfg.maxDepth
    THEN FALSE
    ELSE IF cfg.maxBudget <= 0
         THEN FALSE
         ELSE TRUE

shouldUseParallelExecution(cfg) ==
    IF cfg.currentDepth >= cfg.maxDepth - 1
    THEN FALSE
    ELSE IF cfg.maxBudget <= 0
         THEN FALSE
         ELSE TRUE

InitGate ==
    /\ EngineIdle
    /\ ParIdle
    /\ ev = NoEv
    /\ tr = NoTr
    /\ acct = NoAcct
    /\ gate \in { [pc |-> "call", currentDepth |-> d, maxDepth |-> m, maxBudget |-> b,
                   out |-> FALSE] :
                   d \in 0..MaxGateDepth, m \in 0..MaxGateDepth, b \in Budgets }

GateCall ==
    /\ gate.pc = "call"
    /\ gate' = [gate EXCEPT !.pc = "returned", !.out = shouldUseParallelExecution(gate)]
    /\ ev' = ParEv("shouldUseParallelExecution")
    /\ UNCHANGED <<engineVars, parVars, tr, acct>>

NextGate == GateCall

SpecGate == InitGate /\ [][NextGate]_vars

(***************************************************************************)
(* usage.ts called by any number of runs.  trackUsage, getTotalUsage and   *)
(* resetUsage contain no await: each call runs to completion on the one    *)
(* JavaScript thread, so the calls of concurrently running runs interleave *)
(* as whole calls, in any order.                                           *)
(*   acct.deltas    : the arguments of trackUsage since the last reset     *)
(*   acct.snapshots : [deltas, val, era, obj] the values getTotalUsage has *)
(*                    returned, what had been recorded when it did, after  *)
(*                    how many resets, and the object it returned          *)
(*   acct.era       : the resetUsage calls made                            *)
(*   acct.heap      : the usage objects allocated; an object is its index  *)
(*   acct.cur       : the object the module variable globalUsage names     *)
(*   acct.mods      : the writes callers made to returned objects          *)
(* The variable globalUsage holds the value of acct.heap[acct.cur].        *)
(***************************************************************************)
MaxDeltas == 2           \* trackUsage calls between two resets
MaxSnapshots == 2        \* getTotalUsage calls kept
MaxResets == 1           \* resetUsage calls
MaxMods == 1             \* writes to returned objects
Scribble == 9            \* the value a caller writes into a returned object

\* what generate_code can report: as Usages, and a response with cached and
\* reasoning tokens
Deltas ==
    Usages \cup {[prompt_tokens |-> 1, completion_tokens |-> 1, total_tokens |-> 2,
                  cached_tokens |-> 1, reasoning_tokens |-> 1, cost |-> 1]}

InitUsage ==
    /\ EngineIdle
    /\ ParIdle
    /\ ev = NoEv
    /\ tr = NoTr
    /\ gate = NoGate
    /\ acct = NoAcct

\* `globalUsage.f += usage.f`: the object the variable names is updated in place
TrackUsageCall(usage) ==
    /\ Len(acct.deltas) < MaxDeltas
    /\ globalUsage' = trackUsage(globalUsage, usage)
    /\ acct' = [acct EXCEPT !.deltas = Append(@, usage),
                            !.heap[acct.cur] = trackUsage(@, usage)]
    /\ ev' = Ev("trackUsage", NoRun, NoRun, FALSE, noUsage)
    /\ UNCHANGED <<runs, log, proc, MAX_DEPTH, tr, gate, parVars>>

\* variant: `return globalUsage`, the accumulator object itself
SpreadAlias(heap, cur) == [heap |-> heap, obj |-> cur]

\* `return { ...globalUsage }`: a new object with the six fields copied
SpreadCopy(heap, cur) == [heap |-> Append(heap, heap[cur]), obj |-> Len(heap) + 1]

GetTotalUsageCall ==
    /\ Len(acct.snapshots) < MaxSnapshots
    /\ LET ret == SpreadCopy(acct.heap, acct.cur) IN
       acct' = [acct EXCEPT !.heap = ret.heap,
                            !.snapshots =
                                Append(@, [deltas |-> acct.deltas,
                                           val |-> getTotalUsage(globalUsage),
                                           era |-> acct.era,
                                           obj |-> ret.obj])]
    /\ ev' = Ev("getTotalUsage", NoRun, NoRun, FALSE, noUsage)
    /\ UNCHANGED <<engineVars, tr, gate, parVars>>

\* `globalUsage = { ... }`: the variable is bound to a new object
ResetUsageCall ==
    /\ acct.era < MaxResets
    /\ globalUsage' = resetUsage
    /\ acct' = [acct EXCEPT !.deltas = <<>>,
                            !.era = @ + 1,
                            !.heap = Append(@, resetUsage),
                            !.cur = Len(acct.heap) + 1]
    /\ ev' = Ev("resetUsage", NoRun, NoRun, FALSE, noUsage)
    /\ UNCHANGED <<runs, log, proc, MAX_DEPTH, tr, gate, parVars>>

\* a caller assigns to field f of the object its j-th getTotalUsage returned
ModifySnapshotCall(j, f) ==
    /\ acct.mods < MaxMods
    /\ j \in DOMAIN acct.snapshots
    /\ LET heap == [acct.heap EXCEPT ![acct.snapshots[j].obj][f] = Scribble] IN
       /\ acct' = [acct EXCEPT !.heap = heap, !.mods = @ + 1]
       /\ globalUsage' = heap[acct.cur]
    /\ ev' = Ev("modify", j, NoRun, FALSE, noUsage)
    /\ UNCHANGED <<runs, log, proc, MAX_DEPTH, tr, gate, parVars>>

NextUsage ==
    \/ \E usage \in Deltas : TrackUsageCall(usage)
    \/ GetTotalUsageCall
    \/ ResetUsageCall
    \/ \E j \in 1..MaxSnapshots, f \in {"prompt_tokens", "cost"} : ModifySnapshotCall(j, f)

SpecUsage == InitUsage /\ [][NextUsage]_vars

(***************************************************************************)
(*                              PROPERTIES                                 *)
(***************************************************************************)
IsStepEvent(e) == e.event_type \in {"execution_result", "code_generated"}
StepEvents(rid) == SelectSeq(log, LAMBDA e : e.run_id = rid /\ IsStepEvent(e))
FinalEvents(rid) == SelectSeq(log, LAMBDA e : e.run_id = rid /\ e.event_type = "final_result")
BudgetFailed(rid) == runs[rid].pc = "failed" /\ runs[rid].err \in BudgetErrors

RECURSIVE IsAncestor(_, _)
IsAncestor(a, c) ==
    /\ runs[c].parent # NoRun
    /\ \/ runs[c].parent = a
       \/ IsAncestor(a, runs[c].parent)

\* the last TRUNCATE_LEN characters of s (all of s when it is shorter)
LastChars(s) == SubSeq(s, Max(1, Len(s) - TRUNCATE_LEN + 1), Len(s))

\* one of the three ceilings is exceeded by the accumulated usage g
CeilingExceeded(g) ==
    \/ g.cost >= 0 /\ g.cost > MAX_MONEY_SPENT
    \/ g.completion_tokens > MAX_COMPLETION_TOKENS
    \/ g.prompt_tokens > MAX_PROMPT_TOKENS

(***************************************************************************)
(* C1  Depth invariant.  No run is deeper than max_depth, and a call of    *)
(* llm_query by a run at depth >= max_depth raises, writes the             *)
(* depth-exceeded marker at the end of the run's captured output, creates  *)
(* no run, makes no model call and leaves GlobalUsage as it was.           *)
(***************************************************************************)
C1_RefusedSpawn ==
    (ev'.op = "llm_query" /\ runs[ev'.run].depth >= MAX_DEPTH) =>
        LET before == runs[ev'.run].stdoutBuffer
            after == IF ev'.ended THEN ev'.captured ELSE runs'[ev'.run].stdoutBuffer
        IN  /\ ev'.raised
            /\ ev'.child = NoRun
            /\ Len(runs') = Len(runs)
            /\ globalUsage' = globalUsage
            /\ \A r \in DOMAIN runs : runs'[r].calls = runs[r].calls
            /\ Len(after) >= Len(before) + Len(DEPTH_MARKER)
            /\ SubSeq(after, 1, Len(before)) = before
            /\ SubSeq(after, Len(before) + 1, Len(before) + Len(DEPTH_MARKER)) = DEPTH_MARKER

C1_DepthInvariant ==
    /\ [](\A rid \in DOMAIN runs : runs[rid].depth <= MAX_DEPTH)
    /\ [][C1_RefusedSpawn]_vars

C1_Witness ==
    /\ ev.op = "llm_query"
    /\ ev.raised
    /\ runs[ev.run].depth = MAX_DEPTH
    /\ MAX_DEPTH = 1
    /\ Includes(runs[ev.run].stdoutBuffer, DEPTH_MARKER)

(***************************************************************************)
(* C2  Budget enforcement.  Every model call that returns adds its usage   *)
(* to the accumulator; then the run fails with a budget error exactly when *)
(* the accumulated cost, completion tokens or prompt tokens exceed their   *)
(* ceiling, whether or not the response had code; otherwise it goes on     *)
(* with its step loop.                                                     *)
(***************************************************************************)
C2_AfterModelCall ==
    ev'.op = "generate_code" =>
        LET rid == ev'.run
            u == ev'.usage
            g == globalUsage
            g2 == globalUsage'
        IN  /\ g2.prompt_tokens = g.prompt_tokens + u.prompt_tokens
            /\ g2.completion_tokens = g.completion_tokens + u.completion_tokens
            /\ g2.total_tokens = g.total_tokens + u.total_tokens
            /\ (g.cost >= 0 /\ u.cost >= 0) => g2.cost = g.cost + u.cost
            /\ runs'[rid].calls = runs[rid].calls + 1
            /\ CeilingExceeded(g2) =>
                  /\ runs'[rid].pc = "failed"
                  /\ runs'[rid].err \in BudgetErrors
                  /\ log' = log
            /\ ~CeilingExceeded(g2) =>
                  /\ runs'[rid].err \notin BudgetErrors
                  /\ \/ runs'[rid].pc = "exec" /\ ev'.success
                     \/ runs'[rid].pc = "llm" /\ ~ev'.success
                     \/ /\ ~ev'.success
                        /\ runs[rid].i + 1 = MAX_CALLS
                        /\ runs'[rid].err = STEPS_EXHAUSTED

C3_AncestorStops ==
    \A a \in DOMAIN runs, c \in DOMAIN runs :
        (BudgetFailed(c) /\ IsAncestor(a, c)) =>
            /\ runs'[a].calls = runs[a].calls
            /\ runs'[a].pc # "done"

C3_BudgetAbortsTree ==
    /\ [][C3_AncestorStops]_vars
    /\ []((proc.state = "exited" /\ \E c \in DOMAIN runs : BudgetFailed(c))
            => proc.exitCode # 0)

(***************************************************************************)
(* C4  Step budget.  A run makes at most max_calls_per_run model calls,    *)
(* its step counter never exceeds max_calls_per_run, and a run whose       *)
(* max_calls_per_run-th step has completed without a final value has       *)
(* failed with StepsExhausted and returned nothing.                        *)
(***************************************************************************)
C4_StepBudget ==
    \A rid \in DOMAIN runs :
        LET r == runs[rid] IN
        /\ r.calls <= MAX_CALLS
        /\ r.step <= MAX_CALLS
        /\ r.i <= MAX_CALLS
        /\ (r.step = MAX_CALLS /\ r.pc # "done") =>
              /\ r.pc = "failed"
              /\ r.err = STEPS_EXHAUSTED
              /\ r.result = None
              /\ FinalEvents(rid) = <<>>
        /\ r.err = STEPS_EXHAUSTED => (r.calls = MAX_CALLS /\ r.step = MAX_CALLS)

C4_Witness ==
    \E rid \in DOMAIN runs :
        /\ runs[rid].err = STEPS_EXHAUSTED
        /\ runs[rid].calls = MAX_CALLS
        /\ ~runs[rid].finalSet

(***************************************************************************)
(* C5  Successful termination.  A run that returned did so at the step     *)
(* k >= 1 whose code set the final value: it returns that value, has       *)
(* logged the steps 0..k and then one final-result event carrying the      *)
(* value, has made exactly k <= max_calls_per_run model calls, and makes   *)
(* none afterwards.  Step 0 makes no model call and records no usage.      *)
(***************************************************************************)
C5_Returned ==
    \A rid \in DOMAIN runs :
        runs[rid].pc = "done" =>
            LET r == runs[rid]
                k == r.calls
                steps == StepEvents(rid)
                finals == FinalEvents(rid)
            IN  /\ k >= 1 /\ k <= MAX_CALLS
                /\ r.finalSet
                /\ r.finalVal \in FinalVals
                /\ r.result.v = r.finalVal.v
                /\ r.result.kind # "pyproxy"
                /\ Len(steps) = k + 1
                /\ \A j \in 1..(k + 1) : steps[j].step = j - 1
                /\ Len(finals) = 1
                /\ finals[1].result = r.result
                /\ \E n \in DOMAIN log :
                      /\ log[n].run_id = rid /\ log[n].event_type = "final_result"
                      /\ \A m \in DOMAIN log :
                            (log[m].run_id = rid /\ IsStepEvent(log[m])) => m < n

C5_Frozen ==
    /\ \A rid \in DOMAIN runs :
          runs[rid].pc = "done" =>
              /\ runs'[rid].pc = "done"
              /\ runs'[rid].calls = runs[rid].calls
              /\ runs'[rid].result = runs[rid].result
    /\ ev'.op = "step0" =>
          /\ globalUsage' = globalUsage
          /\ runs'[ev'.run].calls = 0
          /\ log'[Len(log')].usage = Usage(0, 0, Undefined)

C5_SuccessfulTermination == []C5_Returned /\ [][C5_Frozen]_vars

C5_Witness ==
    \E rid \in DOMAIN runs :
        /\ runs[rid].pc = "done"
        /\ runs[rid].calls = MAX_CALLS
        /\ runs[rid].result = [kind |-> "js", v |-> "L"]

(***************************************************************************)
(* C6 as stated  A response with no extractable code always has this       *)
(* effect: nothing is executed, the step is logged without output, the     *)
(* corrective message is appended, the step counter advances by one and    *)
(* the run continues with its next step.                                   *)
(***************************************************************************)
NoCodeResponse == ev'.op = "generate_code" /\ ~ev'.success

C6_StepRecorded(rid) ==
    LET r == runs[rid]
        r2 == runs'[rid]
    IN  /\ r2.finalSet = r.finalSet /\ r2.finalVal = r.finalVal
        /\ Len(log') > Len(log)
        /\ SubSeq(log', 1, Len(log)) = log
        /\ LET e == log'[Len(log) + 1] IN
              /\ e.run_id = rid
              /\ e.event_type = "code_generated"
              /\ e.step = r.i + 1
              /\ ~e.hasOutput
              /\ e.hasError = "none"
        /\ Len(r2.messages) = Len(r.messages) + 2
        /\ SubSeq(r2.messages, 1, Len(r.messages)) = r.messages
        /\ r2.messages[Len(r.messages) + 1].role = "assistant"
        /\ r2.messages[Len(r.messages) + 2].role = "user"
        /\ r2.messages[Len(r.messages) + 2].kind = "corrective"
        /\ r2.i = r.i + 1
        /\ r2.step = r.i + 1

C6_AsStated ==
    [][NoCodeResponse =>
          /\ C6_StepRecorded(ev'.run)
          /\ runs'[ev'.run].stdoutBuffer = runs[ev'.run].stdoutBuffer
          /\ runs'[ev'.run].pc = "llm"]_vars

(***************************************************************************)
(* C6  Recoverable generation.  When a response has no extractable code    *)
(* and no budget ceiling is exceeded once its usage is recorded, nothing   *)
(* is executed, the step is logged without output, the corrective message  *)
(* is appended and the step counter advances by exactly one; the run then  *)
(* makes its next model call if steps remain and fails with StepsExhausted *)
(* if that was its last step.                                              *)
(***************************************************************************)
C6_RecoverableGeneration ==
    [][(NoCodeResponse /\ ~CeilingExceeded(globalUsage')) =>
          /\ C6_StepRecorded(ev'.run)
          /\ IF runs[ev'.run].i + 1 < MAX_CALLS
             THEN /\ runs'[ev'.run].pc = "llm"
                  /\ runs'[ev'.run].stdoutBuffer = runs[ev'.run].stdoutBuffer
                  /\ Len(log') = Len(log) + 1
             ELSE /\ runs'[ev'.run].pc = "failed"
                  /\ runs'[ev'.run].err = STEPS_EXHAUSTED]_vars

C6_Witness ==
    /\ ev.op = "generate_code"
    /\ ~ev.success
    /\ runs[ev.run].pc = "llm"
    /\ runs[ev.run].i = 1
    /\ runs[ev.run].messages[Len(runs[ev.run].messages)].kind = "corrective"

(***************************************************************************)
(* C7 as stated  Whenever a step in which llm_query was refused for depth  *)
(* ends, the output logged for the step contains the depth-exceeded        *)
(* marker, the step is logged with the error flag set, and the run goes on *)
(* to its next step.                                                       *)
(***************************************************************************)
RefusedStepEnds == ev'.ended /\ Includes(ev'.captured, DEPTH_MARKER)

C7_AsStated ==
    [][RefusedStepEnds =>
          /\ Len(log') > Len(log)
          /\ LET e == log'[Len(log) + 1] IN
                /\ e.run_id = ev'.run
                /\ e.hasOutput
                /\ Includes(e.output, DEPTH_MARKER)
                /\ e.hasError = "true"
          /\ runs'[ev'.run].pc = "llm"]_vars

(***************************************************************************)
(* C7  Depth-exceeded spawn is recoverable.  When a step in which          *)
(* llm_query was refused for depth ends without the final-value flag set,  *)
(* the step is logged with the error flag set and with the truncated       *)
(* captured output, which contains the marker whenever the marker lies     *)
(* within the last truncate_len characters captured; the run does not fail *)
(* because of the refusal: it makes its next model call, or fails with     *)
(* StepsExhausted if that was its last step.                               *)
(***************************************************************************)
C7_DepthExceededRecoverable ==
    [][(RefusedStepEnds /\ ~runs[ev'.run].finalSet) =>
          /\ Len(log') > Len(log)
          /\ LET e == log'[Len(log) + 1] IN
                /\ e.run_id = ev'.run
                /\ e.step = runs[ev'.run].i + 1
                /\ e.hasOutput
                /\ e.hasError = "true"
                /\ Includes(LastChars(ev'.captured), DEPTH_MARKER)
                      => Includes(e.output, DEPTH_MARKER)
          /\ IF runs[ev'.run].i + 1 < MAX_CALLS
             THEN runs'[ev'.run].pc = "llm"
             ELSE runs'[ev'.run].pc = "failed" /\ runs'[ev'.run].err = STEPS_EXHAUSTED]_vars

C7_Witness ==
    /\ MAX_DEPTH = 0
    /\ ev.ended
    /\ Includes(ev.captured, DEPTH_MARKER)
    /\ runs[ev.run].pc = "llm"
    /\ log[Len(log)].hasError = "true"
    /\ Includes(log[Len(log)].output, DEPTH_MARKER)

(***************************************************************************)
(* C8  Output truncation.  truncateText(s) with limit T is the             *)
(* empty-output marker when s is empty, the full-output marker followed by *)
(* s when 0 < len(s) <= T, and the truncation marker followed by exactly   *)
(* the last T characters of s when len(s) > T.                             *)
(***************************************************************************)
C8_Truncation ==
    tr.pc = "returned" =>
        LET s == tr.text
            T == tr.limit
        IN  /\ Len(s) = 0 => tr.out = <<"[EMPTY OUTPUT]">>
            /\ (0 < Len(s) /\ Len(s) <= T) => tr.out = <<"[FULL OUTPUT SHOWN]... ">> \o s
            /\ Len(s) > T =>
                  tr.out = <<"[TRUNCATED: Last ", ToString(T), " chars shown].. ">>
                           \o [j \in 1..T |-> s[Len(s) - T + j]]

(***************************************************************************)
(* C9  Sub-agent results are opaque to the transcript.  A run's transcript *)
(* holds the priming message first and after it only assistant messages,   *)
(* the corrective message and the truncated captured output of the run's   *)
(* own steps; the return or failure of a child appends nothing to any      *)
(* transcript except, when the failure ends the parent's step, that step's *)
(* output message.                                                         *)
(***************************************************************************)
C9_Transcript ==
    \A rid \in DOMAIN runs :
        LET m == runs[rid].messages IN
        \A j \in DOMAIN m :
            /\ j = 1 => m[j].kind = "priming"
            /\ j > 1 => m[j].kind \in {"assistant", "corrective", "output"}
            /\ m[j].kind = "output" =>
                  /\ m[j].content[1] = "Output: "
                  /\ m[j].content[2] \in {"[EMPTY OUTPUT]", "[FULL OUTPUT SHOWN]... ",
                                          "[TRUNCATED: Last "}

C9_ChildSettles ==
    ev'.op = "llm_query_return" =>
        \A rid \in DOMAIN runs :
            LET m == runs[rid].messages
                m2 == runs'[rid].messages
            IN  \/ m2 = m
                \/ /\ rid = ev'.run
                   /\ ev'.ended
                   /\ ev'.raised
                   /\ Len(m2) = Len(m) + 1
                   /\ SubSeq(m2, 1, Len(m)) = m
                   /\ m2[Len(m2)].kind = "output"

C9_OpaqueResults == []C9_Transcript /\ [][C9_ChildSettles]_vars

C9_Witness ==
    /\ ev.op = "llm_query_return"
    /\ ~ev.raised
    /\ runs[ev.child].pc = "done"
    /\ runs[ev.child].result = [kind |-> "prim", v |-> "4"]
    /\ runs[ev.run].pc = "exec"

(***************************************************************************)
(* C10  Scheduler batching.  Whatever is pending when the timer fires or   *)
(* flush is called becomes one cohort; in a cohort of two or more members  *)
(* every invocation of the spawn function, in every chunk, carries the     *)
(* cohort's group id, which no other cohort has, and once the cohort is    *)
(* done every member has been invoked exactly once.                        *)
(***************************************************************************)
C10_Cohorts ==
    \A k \in DOMAIN cohorts :
        LET c == cohorts[k] IN
        Len(c.members) >= 2 =>
            /\ c.gid # NoGroup
            /\ \A e \in DOMAIN execs : execs[e].cohort = k => execs[e].gid = c.gid
            /\ \A k2 \in DOMAIN cohorts : k2 # k => cohorts[k2].gid # c.gid
            /\ c.pc = "done" =>
                  \A j \in DOMAIN c.members :
                      Cardinality({e \in DOMAIN execs :
                                      execs[e].cohort = k /\ execs[e].q = c.members[j]}) = 1

C10_Drain ==
    /\ Len(cohorts') > Len(cohorts) =>
          /\ Len(cohorts') = Len(cohorts) + 1
          /\ cohorts'[Len(cohorts')].members = pendingQueries
          /\ pendingQueries' = <<>>
    /\ (pendingQueries # <<>> /\ pendingQueries' = <<>>) => Len(cohorts') = Len(cohorts) + 1

C10_Batching == []C10_Cohorts /\ [][C10_Drain]_vars

C10_Witness ==
    \E k \in DOMAIN cohorts :
        /\ Len(cohorts[k].members) = 3
        /\ Len(cohorts[k].batches) = 2
        /\ cohorts[k].pc = "done"
        /\ \A e \in DOMAIN execs : execs[e].gid = cohorts[k].gid

(***************************************************************************)
(*                      PROPERTIES OF THE SCHEDULER                        *)
(***************************************************************************)
Settled(q) == queries[q].state \in {"resolved", "rejected"}
ExecsOf(k) == {e \in DOMAIN execs : execs[e].cohort = k}
RunningOf(k) == {e \in ExecsOf(k) : execs[e].state = "running"}
\* a timer or flush step that drains a non-empty pending set
Drains == ev'.op \in {"timer", "flush"} /\ Len(cohorts') = Len(cohorts) + 1
\* the chunk of cohort k that holds submission q
ChunkOf(k, q) ==
    CHOOSE b \in DOMAIN cohorts[k].batches :
        \E j \in DOMAIN cohorts[k].batches[b] : cohorts[k].batches[b][j] = q

(***************************************************************************)
(* C11  A cohort of exactly one submission is executed directly: the       *)
(* spawn function is invoked once, for that submission, without a group    *)
(* id; sequentialQueries increases by one; parallelBatches and             *)
(* totalParallelQueries are unchanged; no callback is invoked, neither     *)
(* when the cohort starts nor when it ends.                                *)
(***************************************************************************)
C11_Start ==
    (ev'.op \in {"timer", "flush"} /\ Len(pendingQueries) = 1) =>
        /\ Len(execs') = Len(execs) + 1
        /\ SubSeq(execs', 1, Len(execs)) = execs
        /\ execs'[Len(execs')].q = pendingQueries[1]
        /\ execs'[Len(execs')].context = queries[pendingQueries[1]].context
        /\ execs'[Len(execs')].gid = 0
        /\ stats'.sequentialQueries = stats.sequentialQueries + 1
        /\ stats'.parallelBatches = stats.parallelBatches
        /\ stats'.totalParallelQueries = stats.totalParallelQueries
        /\ groupIds' = groupIds
        /\ callbacks' = callbacks

C11_End ==
    \A k \in DOMAIN cohorts :
        (Len(cohorts[k].members) = 1 /\ cohorts[k].pc # "done" /\ cohorts'[k].pc = "done") =>
            /\ callbacks' = callbacks
            /\ execs' = execs
            /\ stats' = stats

C11_SingleDirect == [][C11_Start /\ C11_End]_vars

C11_Witness ==
    /\ Len(cohorts) = 1
    /\ Len(cohorts[1].members) = 1
    /\ cohorts[1].pc = "done"
    /\ Len(execs) = 1
    /\ execs[1].gid = 0
    /\ stats.sequentialQueries = 1
    /\ stats.parallelBatches = 0
    /\ queries[1].state = "resolved"
    /\ callbacks = <<>>

(***************************************************************************)
(* C12  Chunked concurrency bound.  With maxParallelChildren = k > 0 at    *)
(* most k members of one cohort are executing at any moment; with          *)
(* maxParallelChildren = 0 all n members of a cohort of n > 1 are          *)
(* executing together as soon as the cohort is formed.                     *)
(***************************************************************************)
C12_Bound ==
    \A k \in DOMAIN cohorts :
        config.maxParallelChildren > 0 =>
            Cardinality(RunningOf(k)) <= config.maxParallelChildren

C12_Unlimited ==
    (Drains /\ config.maxParallelChildren = 0 /\ Len(pendingQueries) > 1) =>
        /\ Len(cohorts'[Len(cohorts')].batches) = 1
        /\ Cardinality({e \in DOMAIN execs' :
                           /\ execs'[e].cohort = Len(cohorts')
                           /\ execs'[e].state = "running"}) = Len(pendingQueries)

C12_ChunkedConcurrency == []C12_Bound /\ [][C12_Unlimited]_vars

C12_Witness ==
    /\ config.maxParallelChildren = 2
    /\ Len(cohorts) = 1
    /\ Len(cohorts[1].members) = 3
    /\ Cardinality(RunningOf(1)) = 2
    /\ cohorts[1].cur = 1

(***************************************************************************)
(* C13  Scheduler fairness.  When a chunk of a cohort settles, every       *)
(* member whose execution succeeded is resolved with its own result and    *)
(* every member whose execution failed is rejected with its own error,     *)
(* whatever happened to its siblings; and if the cohort has a later chunk, *)
(* every member of that chunk is then executed.                            *)
(***************************************************************************)
C13_ChunkSettles ==
    \A k \in DOMAIN cohorts :
        (ev'.op = "settled" /\ cohorts'[k] # cohorts[k]) =>
            LET c == cohorts[k]
                batch == c.batches[c.cur]
            IN  /\ \A j \in DOMAIN batch :
                      \E e \in ExecsOf(k) :
                          /\ execs[e].q = batch[j]
                          /\ execs[e].state = "fulfilled" =>
                                /\ queries'[batch[j]].state = "resolved"
                                /\ queries'[batch[j]].value =
                                      [kind |-> "result", context |-> queries[batch[j]].context]
                          /\ execs[e].state = "rejected" =>
                                /\ queries'[batch[j]].state = "rejected"
                                /\ queries'[batch[j]].value =
                                      [kind |-> "error", context |-> queries[batch[j]].context]
                /\ c.cur < Len(c.batches) =>
                      \A j \in DOMAIN c.batches[c.cur + 1] :
                          \E e \in DOMAIN execs' :
                              /\ execs'[e].cohort = k
                              /\ execs'[e].q = c.batches[c.cur + 1][j]
                              /\ execs'[e].state = "running"

C13_Fairness == [][C13_ChunkSettles]_vars

C13_Witness ==
    /\ config.maxParallelChildren = 2
    /\ Len(cohorts) = 1
    /\ cohorts[1].members = <<1, 2, 3>>
    /\ cohorts[1].pc = "done"
    /\ queries[1].state = "rejected"
    /\ queries[2].state = "resolved"
    /\ queries[3].state = "resolved"

(***************************************************************************)
(* C14  Every submission is settled exactly once.  Each submitted context  *)
(* is passed to the spawn function at most once, and exactly once by the   *)
(* time its future is settled; a settled future carries the result or the  *)
(* error of that one execution and never changes afterwards; and, every    *)
(* execution terminating, every submission is eventually settled.          *)
(***************************************************************************)
C14_Once ==
    \A q \in DOMAIN queries :
        LET es == {e \in DOMAIN execs : execs[e].q = q} IN
        /\ Cardinality(es) <= 1
        /\ \A e \in es : execs[e].context = queries[q].context
        /\ queries[q].state # "pending" =>
              /\ Cardinality(es) = 1
              /\ \A e \in es :
                    \/ /\ execs[e].state = "fulfilled"
                       /\ queries[q] = [context |-> queries[q].context, state |-> "resolved",
                                        value |-> [kind |-> "result",
                                                   context |-> queries[q].context]]
                    \/ /\ execs[e].state = "rejected"
                       /\ queries[q] = [context |-> queries[q].context, state |-> "rejected",
                                        value |-> [kind |-> "error",
                                                   context |-> queries[q].context]]

C14_Stable ==
    \A q \in DOMAIN queries : queries[q].state # "pending" => queries'[q] = queries[q]

C14_SettledExactlyOnce ==
    /\ []C14_Once
    /\ [][C14_Stable]_vars
    /\ \A q \in 1..MaxQueries :
          (q \in DOMAIN queries) ~> (q \in DOMAIN queries /\ queries[q].state # "pending")

C14_Witness ==
    /\ Len(queries) = 3
    /\ Len(cohorts) = 2
    /\ \A q \in DOMAIN queries : queries[q].state # "pending"
    /\ \E q \in DOMAIN queries : queries[q].state = "rejected"
    /\ \E q \in DOMAIN queries : queries[q].state = "resolved"
    /\ \E k \in DOMAIN cohorts : cohorts[k].byFlush

(***************************************************************************)
(* C15  Chunks of a cohort execute one after another in submission order.  *)
(* No member of a later chunk has been started while a member of an        *)
(* earlier chunk is still executing; the members of the first chunk are    *)
(* all executing once the cohort is formed; chunk boundaries follow the    *)
(* submission order; and every cohort is eventually done.                  *)
(***************************************************************************)
C15_Order ==
    \A k \in DOMAIN cohorts :
        /\ \A e1, e2 \in ExecsOf(k) :
              ChunkOf(k, execs[e1].q) < ChunkOf(k, execs[e2].q) => execs[e1].state # "running"
        /\ \A b1, b2 \in DOMAIN cohorts[k].batches :
              \A j1 \in DOMAIN cohorts[k].batches[b1], j2 \in DOMAIN cohorts[k].batches[b2] :
                  b1 < b2 => cohorts[k].batches[b1][j1] < cohorts[k].batches[b2][j2]

C15_FirstChunk ==
    (Drains /\ Len(pendingQueries) > 1 /\ config.maxParallelChildren > 0) =>
        LET n == Len(pendingQueries)
            m == IF n < config.maxParallelChildren THEN n ELSE config.maxParallelChildren
        IN  {execs'[e].q : e \in {x \in DOMAIN execs' : /\ execs'[x].cohort = Len(cohorts')
                                                        /\ execs'[x].state = "running"}}
               = {pendingQueries[j] : j \in 1..m}

C15_ChunksInOrder ==
    /\ []C15_Order
    /\ [][C15_FirstChunk]_vars
    /\ \A k \in 1..MaxQueries :
          (k \in DOMAIN cohorts) ~> (k \in DOMAIN cohorts /\ cohorts[k].pc = "done")

C15_Witness ==
    /\ config.maxParallelChildren = 2
    /\ Len(cohorts) = 1
    /\ cohorts[1].members = <<1, 2, 3>>
    /\ cohorts[1].cur = 2
    /\ \E e \in ExecsOf(1) : execs[e].q = 3 /\ execs[e].state = "running"
    /\ \A e \in ExecsOf(1) : execs[e].q # 3 => execs[e].state # "running"
    /\ queries[1].state # "pending"
    /\ queries[2].state # "pending"
    /\ queries[3].state = "pending"

(***************************************************************************)
(* C16  Observability callbacks.  For every cohort of n > 1 members the    *)
(* start callback has been invoked exactly once, with the member count n,  *)
(* by the time any member executes; the completion callback is invoked     *)
(* exactly once, with member count n, when every member of every chunk     *)
(* has settled, and not before.                                            *)
(***************************************************************************)
CallbacksOf(k, kind) ==
    {c \in DOMAIN callbacks : callbacks[c].kind = kind /\ callbacks[c].gid = cohorts[k].gid}

C16_Callbacks ==
    \A k \in DOMAIN cohorts :
        LET n == Len(cohorts[k].members) IN
        n > 1 =>
            /\ Cardinality(CallbacksOf(k, "start")) = 1
            /\ \A c \in CallbacksOf(k, "start") : callbacks[c].count = n
            /\ Cardinality(CallbacksOf(k, "complete")) =
                  IF \A j \in 1..n : queries[cohorts[k].members[j]].state # "pending"
                  THEN 1 ELSE 0
            /\ \A c \in CallbacksOf(k, "complete") :
                  /\ callbacks[c].count = n
                  /\ \A c0 \in CallbacksOf(k, "start") : c0 < c

(***************************************************************************)
(* C17  flush() forces immediate execution.  A call of flush() leaves no   *)
(* timer armed and nothing pending; what was pending is one new cohort,    *)
(* whose first member is executing at once, and the activation started by  *)
(* flush() is done only when every member of that cohort is settled; with  *)
(* nothing pending the call starts no execution, invokes no callback and   *)
(* changes no statistic.                                                   *)
(***************************************************************************)
C17_FlushCall ==
    ev'.op = "flush" =>
        /\ ~batchTimeout'
        /\ pendingQueries' = <<>>
        /\ IF pendingQueries = <<>>
           THEN /\ execs' = execs
                /\ callbacks' = callbacks
                /\ stats' = stats
                /\ cohorts' = cohorts
                /\ queries' = queries
           ELSE /\ Len(cohorts') = Len(cohorts) + 1
                /\ SubSeq(cohorts', 1, Len(cohorts)) = cohorts
                /\ cohorts'[Len(cohorts')].members = pendingQueries
                /\ cohorts'[Len(cohorts')].byFlush
                /\ \E e \in DOMAIN execs' :
                      /\ e > Len(execs)
                      /\ execs'[e].q = pendingQueries[1]
                      /\ execs'[e].state = "running"

C17_FlushDone ==
    \A k \in DOMAIN cohorts :
        (cohorts[k].byFlush /\ cohorts[k].pc = "done") =>
            \A j \in DOMAIN cohorts[k].members :
                queries[cohorts[k].members[j]].state # "pending"

C17_Flush == []C17_FlushDone /\ [][C17_FlushCall]_vars

C17_Witness ==
    /\ ev.op = "flush"
    /\ Len(queries) = 2
    /\ Len(cohorts) = 1
    /\ cohorts[1].byFlush
    /\ cohorts[1].members = <<1, 2>>
    /\ cohorts[1].pc = "done"
    /\ pendingQueries = <<>>

(***************************************************************************)
(* C19  resetStats sets the four counters to zero and changes nothing      *)
(* else: not the pending set, not the timer, no cohort, no execution, no   *)
(* future; and every submission pending or executing when it is called is  *)
(* still settled.                                                          *)
(***************************************************************************)
C19_ResetCall ==
    ev'.op = "resetStats" =>
        /\ stats' = [totalQueries |-> 0, parallelBatches |-> 0, sequentialQueries |-> 0,
                     totalParallelQueries |-> 0]
        /\ pendingQueries' = pendingQueries
        /\ batchTimeout' = batchTimeout
        /\ cohorts' = cohorts
        /\ execs' = execs
        /\ queries' = queries
        /\ callbacks' = callbacks

C19_ResetStats ==
    /\ [][C19_ResetCall]_vars
    /\ \A q \in 1..MaxQueries :
          (ev.op = "resetStats" /\ q \in DOMAIN queries)
              ~> (q \in DOMAIN queries /\ queries[q].state # "pending")

C19_Witness ==
    /\ ev.op = "resetStats"
    /\ stats.totalQueries = 0
    /\ Len(queries) = 3
    /\ pendingQueries = <<3>>
    /\ batchTimeout
    /\ \E e \in DOMAIN execs : execs[e].state = "running"

(***************************************************************************)
(* C18  Eligibility gate.  shouldUseParallelExecution(config) is false     *)
(* exactly when currentDepth >= maxDepth - 1 or maxBudget <= 0, and true   *)
(* for every other configuration.                                          *)
(***************************************************************************)
C18_Gate ==
    gate.pc = "returned" =>
        /\ (gate.currentDepth + 1 >= gate.maxDepth \/ gate.maxBudget < 1) => gate.out = FALSE
        /\ (gate.currentDepth + 1 < gate.maxDepth /\ gate.maxBudget > 0) => gate.out = TRUE

C18_Witness ==
    /\ gate.pc = "returned"
    /\ gate.currentDepth = 1
    /\ gate.maxDepth = 3
    /\ gate.maxBudget = 1
    /\ gate.out = TRUE

(***************************************************************************)
(* C20  Accountant correctness.  Every field of every snapshot equals the  *)
(* sum of that field over all deltas recorded since the last reset, in     *)
(* whatever order the calls of concurrent runs were made; a delta counts   *)
(* in all six fields or in none.  A delta that reports no cost adds        *)
(* nothing to the cost.                                                    *)
(***************************************************************************)
RECURSIVE SumOf(_, _)
SumOf(ds, f) ==
    IF ds = <<>>
    THEN 0
    ELSE SumOf(SubSeq(ds, 1, Len(ds) - 1), f)
         + (IF ds[Len(ds)][f] = 0 - 1 THEN 0 ELSE ds[Len(ds)][f])

UsageFields ==
    {"prompt_tokens", "completion_tokens", "total_tokens", "cached_tokens",
     "reasoning_tokens", "cost"}

C20_ExactSums ==
    \A j \in DOMAIN acct.snapshots :
        \A f \in UsageFields :
            acct.snapshots[j].val[f] = SumOf(acct.snapshots[j].deltas, f)

(***************************************************************************)
(* C21  GlobalUsage is monotone.  Of two snapshots taken with no reset     *)
(* between them, where every delta recorded up to the later one is made of *)
(* non-negative numbers, each field of the later snapshot is at least the  *)
(* same field of the earlier one.                                          *)
(***************************************************************************)
ReportsCost(ds) == \A k \in DOMAIN ds : ds[k].cost # Undefined

C21_Monotone ==
    \A i \in DOMAIN acct.snapshots, j \in DOMAIN acct.snapshots :
        (/\ i < j
         /\ acct.snapshots[i].era = acct.snapshots[j].era
         /\ ReportsCost(acct.snapshots[j].deltas))
        => \A f \in UsageFields : acct.snapshots[j].val[f] >= acct.snapshots[i].val[f]

\* two snapshots after the process-start reset, records between them
C21_Witness ==
    /\ Len(acct.snapshots) = 2
    /\ acct.snapshots[1].era = 1
    /\ acct.snapshots[2].era = 1
    /\ ReportsCost(acct.snapshots[2].deltas)
    /\ acct.snapshots[1].deltas # <<>>
    /\ acct.snapshots[2].val.prompt_tokens > acct.snapshots[1].val.prompt_tokens
    /\ acct.snapshots[2].val.cost > acct.snapshots[1].val.cost

(***************************************************************************)
(* C22  getTotalUsage returns an independent copy.  A trackUsage or        *)
(* resetUsage call changes no object that getTotalUsage returned earlier,  *)
(* and a write to a returned object changes neither the accumulator nor    *)
(* any other returned object.                                              *)
(***************************************************************************)
Returned(j) == acct.snapshots[j].obj

C22_Step ==
    /\ ev'.op \in {"trackUsage", "resetUsage"}
       => \A j \in DOMAIN acct.snapshots : acct'.heap[Returned(j)] = acct.heap[Returned(j)]
    /\ ev'.op = "modify"
       => /\ globalUsage' = globalUsage
          /\ acct'.heap[acct'.cur] = acct.heap[acct.cur]
          /\ \A j \in DOMAIN acct.snapshots :
                j # ev'.run => acct'.heap[Returned(j)] = acct.heap[Returned(j)]

C22_IndependentCopy == [][C22_Step]_vars

\* one returned object was written to, another was returned before a record
C22_Witness ==
    /\ ev.op = "trackUsage"
    /\ \E i \in DOMAIN acct.snapshots, j \in DOMAIN acct.snapshots :
          /\ i # j
          /\ acct.heap[Returned(i)].prompt_tokens = Scribble
          /\ acct.heap[Returned(j)] = acct.snapshots[j].val
          /\ acct.snapshots[j].era = acct.era
          /\ acct.snapshots[j].deltas # acct.deltas
          /\ globalUsage # acct.snapshots[j].val
          /\ globalUsage.prompt_tokens # Scribble

(***************************************************************************)
(* C23  Exit protocol.  When the process has ended, the event log was      *)
(* flushed first; then, if a result file is configured, a result object    *)
(* was written that holds the cumulative usage and, exactly when the root  *)
(* run failed, its error; then the process exited, with a non-zero status  *)
(* exactly when the root run failed.                                       *)
(***************************************************************************)
RootFailed == runs[1].pc = "failed"

C24_Armed ==
    /\ timers <= 1
    /\ pendingQueries # <<>> => (timers = 1 /\ batchTimeout)

C24_Submit ==
    ev'.op = "queueQuery"
    => /\ pendingQueries' = Append(pendingQueries, Len(queries'))
       /\ IF pendingQueries = <<>> /\ timers = 0
          THEN timers' = 1
          ELSE timers' = timers

C24_OneTimer == []C24_Armed /\ [][C24_Submit]_vars

\* after a first cohort was drained, two submissions share the second timer
C24_Witness ==
    /\ ev.op = "queueQuery"
    /\ cohorts # <<>>
    /\ Len(pendingQueries) = 2
    /\ timers = 1

(***************************************************************************)
(* C25  The pending set is drained atomically.  The members of a cohort    *)
(* are the submissions pending when flushBatch ran and never change.  A    *)
(* submission made while a cohort executes joins no existing cohort: it    *)
(* is appended to the pending set, a timer is armed for it (a new one if   *)
(* nothing was pending), and it runs in a cohort created later, whose      *)
(* group id is none or differs from that of every earlier cohort.          *)
(***************************************************************************)
MembersOf(k) == {cohorts[k].members[j] : j \in DOMAIN cohorts[k].members}

C25_Submit ==
    (ev'.op = "queueQuery" /\ \E k \in DOMAIN cohorts : cohorts[k].pc # "done")
    => /\ cohorts' = cohorts
       /\ execs' = execs
       /\ \A k \in DOMAIN cohorts : Len(queries') \notin MembersOf(k)
       /\ pendingQueries' = Append(pendingQueries, Len(queries'))
       /\ timers' = 1
       /\ pendingQueries = <<>> => timers = 0

C25_Drain ==
    Len(cohorts') > Len(cohorts)
    => LET c == cohorts'[Len(cohorts')] IN
       /\ Len(cohorts') = Len(cohorts) + 1
       /\ c.members = pendingQueries
       /\ pendingQueries' = <<>>
       /\ \A k \in DOMAIN cohorts :
             /\ cohorts'[k] = cohorts[k]
             /\ \A j \in DOMAIN c.members : c.members[j] \notin MembersOf(k)
             /\ c.gid = NoGroup \/ c.gid # cohorts[k].gid

C25_Fixed ==
    \A k \in DOMAIN cohorts : cohorts'[k].members = cohorts[k].members

C25_RunsInOwnCohort ==
    \A e \in DOMAIN execs :
        /\ execs[e].q \in MembersOf(execs[e].cohort)
        /\ execs[e].gid = cohorts[execs[e].cohort].gid

C25_AtomicDrain ==
    /\ []C25_RunsInOwnCohort
    /\ [][C25_Submit /\ C25_Drain /\ C25_Fixed]_vars

\* a submission made while the first cohort executes runs in the second
C25_Witness ==
    /\ Len(cohorts) = 2
    /\ cohorts[1].pc # "done"
    /\ cohorts[1].gid # NoGroup
    /\ cohorts[2].gid # cohorts[1].gid
    /\ \E e \in DOMAIN execs : execs[e].cohort = 1 /\ execs[e].state = "running"
    /\ \E e \in DOMAIN execs : execs[e].cohort = 2 /\ execs[e].state = "running"

(***************************************************************************)
(* C26  Scheduler-wide bound.  With maxParallelChildren = k > 0, the       *)
(* subagentFn calls the executor has started and that have not finished    *)
(* never number more than k.                                               *)
(***************************************************************************)
Unfinished == {e \in DOMAIN execs : execs[e].state = "running"}

C26_SchedulerBound ==
    config.maxParallelChildren > 0 => Cardinality(Unfinished) <= config.maxParallelChildren

(***************************************************************************)
(* C27  Steps of one run.  The step events of a run carry the step values  *)
(* 0, 1, 2, ... in log order, without gap or repetition, and a model call  *)
(* of loop iteration i (the call of step i + 1) is made only when the      *)
(* steps 0..i of the run have been logged and the final-value check of     *)
(* step i has left the flag unset.                                         *)
(***************************************************************************)
C27_Numbered ==
    \A rid \in DOMAIN runs :
        \A k \in DOMAIN StepEvents(rid) : StepEvents(rid)[k].step = k - 1

C27_CallAfterLog ==
    ev'.op \in {"generate_code", "generate_code_throws"}
    => LET rid == ev'.run IN
       /\ Len(StepEvents(rid)) = runs[rid].i + 1
       /\ runs[rid].step = runs[rid].i
       /\ ~runs[rid].finalSet
       /\ runs[rid].pc = "llm"

C27_StepOrder == []C27_Numbered /\ [][C27_CallAfterLog]_vars

\* a run has logged the steps 0, 1 and 2
C27_Witness ==
    \E rid \in DOMAIN runs :
        /\ Len(StepEvents(rid)) = 3
        /\ StepEvents(rid)[3].step = 2
        /\ runs[rid].calls = 2

(***************************************************************************)
(* C28  Parent/child event order.  The first event of a child run stands   *)
(* in the log after the step event of the parent's step whose code         *)
(* spawned the child.                                                      *)
(***************************************************************************)
EventsOf(rid) == {k \in DOMAIN log : log[k].run_id = rid}
FirstEventOf(rid) == CHOOSE k \in EventsOf(rid) : \A m \in EventsOf(rid) : k <= m

C28_ChildAfterParentStep ==
    \A cid \in DOMAIN runs :
        (runs[cid].parent # NoRun /\ EventsOf(cid) # {})
        => \E j \in EventsOf(runs[cid].parent) :
              /\ IsStepEvent(log[j])
              /\ log[j].step = runs[cid].spawnStep + 1
              /\ j < FirstEventOf(cid)

(***************************************************************************)
(* C29  Terminal event.  A run that has ended, with a final value, with    *)
(* StepsExhausted or with BudgetExceeded, has closed its events: after its *)
(* last step event it has emitted exactly one agent_end event, preceded by *)
(* one final_result event exactly when it returned a value, and no step    *)
(* event of the run follows them.                                          *)
(***************************************************************************)
IsClosingEvent(e) == e.event_type \in {"final_result", "agent_end"}
ClosingEventsOf(rid) == {k \in EventsOf(rid) : IsClosingEvent(log[k])}

C29_TerminalEvent ==
    \A rid \in DOMAIN runs :
        (\/ runs[rid].pc = "done"
         \/ runs[rid].pc = "failed" /\ runs[rid].err \in BudgetErrors \cup {STEPS_EXHAUSTED})
        => /\ Cardinality({k \in EventsOf(rid) : log[k].event_type = "agent_end"}) = 1
           /\ Len(FinalEvents(rid)) = IF runs[rid].pc = "done" THEN 1 ELSE 0
           /\ \A k \in ClosingEventsOf(rid), m \in EventsOf(rid) :
                 IsStepEvent(log[m]) => m < k

(***************************************************************************)
(* C30  No mid-step cancellation.  A run that failed with BudgetExceeded   *)
(* at the check that follows its n-th model call has executed the code of  *)
(* that response and logged step n before failing.                         *)
(***************************************************************************)
C30_StepCompletedBeforeBudget ==
    \A rid \in DOMAIN runs :
        BudgetFailed(rid)
        => /\ runs[rid].step = runs[rid].calls
           /\ \E k \in DOMAIN StepEvents(rid) : StepEvents(rid)[k].step = runs[rid].calls

(***************************************************************************)
(* C31  Append-only transcript.  Every operation leaves the messages a run *)
(* already has where they are and as they are.  Step 0 appends the priming *)
(* message; a response without code appends the assistant message and the  *)
(* corrective message; a response with code appends the assistant message  *)
(* and, when the execution ends without a final value, the truncated       *)
(* output; an execution that ends with the final value appends nothing     *)
(* more.  So a step adds one or two messages.                              *)
(***************************************************************************)
IsPrefix(a, b) == Len(a) <= Len(b) /\ SubSeq(b, 1, Len(a)) = a
Added(rid) == SubSeq(runs'[rid].messages, Len(runs[rid].messages) + 1,
                     Len(runs'[rid].messages))

C31_Kept ==
    \A rid \in DOMAIN runs : IsPrefix(runs[rid].messages, runs'[rid].messages)

C31_Appended ==
    \A rid \in DOMAIN runs :
        LET r == runs[rid]
            mine == ev'.run = rid
        IN  IF mine /\ ev'.op = "step0"
            THEN r.messages = <<>> /\ Added(rid) = <<PrimingMsg>>
            ELSE IF mine /\ ev'.op = "generate_code"
            THEN IF ~ev'.success /\ runs'[rid].err \notin BudgetErrors
                 THEN Added(rid) = <<AssistantMsg(FALSE), CorrectiveMsg>>
                 ELSE Added(rid) = <<AssistantMsg(ev'.success)>>
            ELSE IF mine /\ ev'.ended
            THEN IF r.finalSet
                 THEN Added(rid) = <<>>
                 ELSE Added(rid) = <<OutputMsg(truncateText(ev'.captured, TRUNCATE_LEN))>>
            ELSE Added(rid) = <<>>

\* the messages a run holds between two steps: one for step 0, two for each
\* completed step, one for the step under way or ended by the final value
C31_Count ==
    \A rid \in DOMAIN runs :
        LET r == runs[rid]
            n == Len(r.messages)
        IN  /\ r.pc = "llm" => n = 1 + 2 * r.i
            /\ r.pc = "exec" => n = 2 + 2 * r.i
            /\ r.pc = "done" => n = 2 * r.step
            /\ r.err = STEPS_EXHAUSTED => n = 1 + 2 * MAX_CALLS

C31_AppendOnly == []C31_Count /\ [][C31_Kept /\ C31_Appended]_vars

\* a run went through a step without code and a step with output, then ended
\* with the final value
C31_Witness ==
    \E rid \in DOMAIN runs, other \in DOMAIN runs :
        /\ runs[rid].pc = "done"
        /\ Len(runs[rid].messages) = 4
        /\ runs[rid].messages[3].kind \in {"corrective", "output"}
        /\ runs[other].err = STEPS_EXHAUSTED
        /\ Len(runs[other].messages) = 5
        /\ runs[other].messages[3].kind \in {"corrective", "output"}
        /\ runs[other].messages[3].kind # runs[rid].messages[3].kind

(***************************************************************************)
(* C32  Final-value sentinels.  FINAL and FINAL_VAR have the same effect:  *)
(* the call stores its argument and sets the flag, whatever was stored     *)
(* before.  When an execution ends with the flag set, the run returns the  *)
(* converted argument of the last call; the flag is never set when a step  *)
(* starts, so an execution that called neither ends with the flag unset,   *)
(* and the run then goes on to its next step or, after its last step,      *)
(* fails with StepsExhausted.                                              *)
(***************************************************************************)
C32_Call ==
    ev'.op \in {"FINAL", "FINAL_VAR"}
    => LET r == runs[ev'.run] IN
       /\ runs'[ev'.run] = [r EXCEPT !.finalVal = ev'.arg, !.finalSet = TRUE]
       /\ FINAL(r, ev'.arg) = FINAL_VAR(r, ev'.arg)

\* the execution of run ev'.run ends in this step
ExecutionEnds == ev'.ended /\ runs[ev'.run].pc = "exec"

C32_End ==
    ExecutionEnds
    => LET r == runs[ev'.run]
           r2 == runs'[ev'.run]
       IN  IF r.finalSet
           THEN r2.pc = "done" /\ r2.result = toJs(r.finalVal)
           ELSE \/ r2.pc = "llm" /\ r2.i = r.i + 1 /\ r.i + 1 < MAX_CALLS
                \/ r2.pc = "failed" /\ r2.err = STEPS_EXHAUSTED /\ r.i + 1 = MAX_CALLS

C32_UnsetAtStepStart ==
    \A rid \in DOMAIN runs : runs[rid].finalSet => runs[rid].pc \in {"exec", "done"}

C32_Sentinels == []C32_UnsetAtStepStart /\ [][C32_Call /\ C32_End]_vars

\* as stated: an execution that called neither sentinel is followed by a next step
C32_AsStated ==
    [][(ExecutionEnds /\ ~runs[ev'.run].finalSet) => runs'[ev'.run].pc = "llm"]_vars

\* FINAL_VAR is called with a list after a sentinel had stored a value in this step
C32_Witness ==
    /\ ev.op = "FINAL_VAR"
    /\ ev.again
    /\ ev.arg = [kind |-> "pyproxy", v |-> "L"]
    /\ runs[ev.run].finalSet
    /\ runs[ev.run].finalVal = ev.arg
    /\ runs[ev.run].i = 1

(***************************************************************************)
(* C33  Sandbox execution errors are recoverable.  When the execution of a *)
(* step raises and the final-value flag is not set, the error text is      *)
(* appended to the captured output, the step is logged with that output    *)
(* truncated and the error flag set, the truncated output is appended to   *)
(* the transcript as a user message, and the run does not fail with the    *)
(* error: it goes on to its next step or, after its last step, fails with  *)
(* StepsExhausted.                                                         *)
(***************************************************************************)
ExecutionRaises == ExecutionEnds /\ ev'.raised /\ ~runs[ev'.run].finalSet

C33_Recovered ==
    ExecutionRaises
    => LET r == runs[ev'.run]
           r2 == runs'[ev'.run]
           shown == truncateText(ev'.captured, TRUNCATE_LEN)
       IN  /\ IsPrefix(r.stdoutBuffer, ev'.captured)
           /\ Len(ev'.captured) > Len(r.stdoutBuffer)
           /\ \E m \in {DEPTH_ERROR, <<"x">>} \cup {<<msg>> : msg \in BudgetErrors
                                                     \cup {STEPS_EXHAUSTED, API_ERROR}} :
                 IsPrefix(r.stdoutBuffer, ev'.captured)
                 /\ SubSeq(ev'.captured, Len(ev'.captured) - Len(m), Len(ev'.captured))
                       = <<"E">> \o m
           /\ Len(log') > Len(log)
           /\ LET e == log'[Len(log) + 1] IN
                 /\ e.run_id = ev'.run
                 /\ e.step = r.i + 1
                 /\ e.hasOutput
                 /\ e.output = shown
                 /\ e.hasError = "true"
           /\ r2.messages = Append(r.messages, OutputMsg(shown))
           /\ r2.err \in {"", STEPS_EXHAUSTED}
           /\ IF r.i + 1 < MAX_CALLS
              THEN r2.pc = "llm" /\ r2.i = r.i + 1
              ELSE r2.pc = "failed" /\ r2.err = STEPS_EXHAUSTED

C33_SandboxErrorRecoverable == [][C33_Recovered]_vars

\* as stated: the run always continues to a next step
C33_AsStated == [][ExecutionRaises => runs'[ev'.run].pc = "llm"]_vars

\* the code of a first step raised; the run waits for its second model call
C33_Witness ==
    /\ ev.op = "py_error"
    /\ ev.ended
    /\ runs[ev.run].pc = "llm"
    /\ runs[ev.run].i = 1
    /\ log[Len(log)].hasError = "true"
    /\ log[Len(log)].run_id = ev.run
    /\ runs[ev.run].messages[Len(runs[ev.run].messages)].kind = "output"

(***************************************************************************)
(* C34  A child's StepsExhausted reaches its parent as a failure.  The     *)
(* llm_query call that created the child raises in the generated code and  *)
(* returns no value; unhandled, it ends the parent's step with the child's *)
(* error text in the captured output.  A run only ever returns the value   *)
(* its own code gave to a sentinel, and the process only the root's.       *)
(***************************************************************************)
C34_Raises ==
    (ev'.op = "llm_query_return" /\ runs[ev'.child].err = STEPS_EXHAUSTED)
    => /\ ev'.raised
       /\ runs'[ev'.child].consumed
       /\ runs'[ev'.child].result = None
       /\ IF ev'.ended
          THEN ev'.captured = runs[ev'.run].stdoutBuffer \o <<"E", STEPS_EXHAUSTED>>
          ELSE runs'[ev'.run] = runs[ev'.run]

C34_OwnResult ==
    /\ \A rid \in DOMAIN runs :
          /\ runs[rid].pc = "done"
             => (runs[rid].finalSet /\ runs[rid].result = toJs(runs[rid].finalVal))
          /\ runs[rid].pc # "done" => runs[rid].result = None
    /\ proc.state = "exited" => proc.out = runs[1].result

C34_ChildFailurePropagates == []C34_OwnResult /\ [][C34_Raises]_vars

\* the root returned its own value after a child of its had exhausted its steps
C34_Witness ==
    /\ proc.state = "exited"
    /\ runs[1].pc = "done"
    /\ proc.out = runs[1].result
    /\ \E cid \in DOMAIN runs :
          /\ runs[cid].parent = 1
          /\ runs[cid].err = STEPS_EXHAUSTED
          /\ runs[cid].consumed

(***************************************************************************)
(* C35  Run hierarchy.  The root run has depth 0 and no parent; every      *)
(* other run has as parent the run whose code called llm_query, which was  *)
(* executing at that moment, and is one level deeper; neither ever         *)
(* changes, every event carries them, and following the parent links from  *)
(* any run leads to the root.                                              *)
(***************************************************************************)
C35_Links ==
    \A rid \in DOMAIN runs :
        IF rid = 1
        THEN runs[rid].depth = 0 /\ runs[rid].parent = NoRun
        ELSE /\ runs[rid].parent \in DOMAIN runs
             /\ runs[rid].parent < rid
             /\ runs[rid].depth = runs[runs[rid].parent].depth + 1
             /\ IsAncestor(1, rid)

C35_Events ==
    \A k \in DOMAIN log :
        /\ log[k].run_id \in DOMAIN runs
        /\ log[k].parent_run_id = runs[log[k].run_id].parent
        /\ log[k].depth = runs[log[k].run_id].depth

C35_Spawn ==
    /\ \A rid \in DOMAIN runs :
          /\ runs'[rid].parent = runs[rid].parent
          /\ runs'[rid].depth = runs[rid].depth
    /\ Len(runs') > Len(runs) /\ runs # <<>>
       => /\ Len(runs') = Len(runs) + 1
          /\ ev'.op = "llm_query"
          /\ runs[ev'.run].pc = "exec"
          /\ runs'[Len(runs')].parent = ev'.run
          /\ runs'[Len(runs')].depth = runs[ev'.run].depth + 1

C35_RunHierarchy == [](C35_Links /\ C35_Events) /\ [][C35_Spawn]_vars

\* a child of the root has a child of its own, and it has logged
C35_Witness ==
    /\ Len(runs) = 3
    /\ runs[2].parent = 1
    /\ runs[3].parent = 2
    /\ runs[3].depth = 2
    /\ \E k \in DOMAIN log : log[k].run_id = 3 /\ IsStepEvent(log[k])

(***************************************************************************)
(* C36  Termination.  When every provider call and every code execution    *)
(* returns, every run that was started ends, with a final value, with      *)
(* StepsExhausted or with BudgetExceeded, and the process exits.  No run   *)
(* is deeper than max_depth or takes more than max_calls_per_run steps.    *)
(***************************************************************************)
C36_Bounded ==
    \A rid \in DOMAIN runs :
        /\ runs[rid].depth <= MAX_DEPTH
        /\ runs[rid].calls <= MAX_CALLS
        /\ runs[rid].step <= MAX_CALLS
        /\ runs[rid].pc = "failed" => runs[rid].err \in BudgetErrors \cup {STEPS_EXHAUSTED}

\* every started run ends
C36_RunsEnd ==
    \A rid \in 1..MaxLiveRuns :
        (rid \in DOMAIN runs) ~> (rid \in DOMAIN runs /\ Terminal(runs[rid]))

\* the top-level invocation ends
C36_ProcessExits == <>(proc.state = "exited")

C36_Termination == []C36_Bounded /\ C36_RunsEnd /\ C36_ProcessExits

(***************************************************************************)
(* C37  The final value takes precedence over an error of the same step.   *)
(* When an execution that raised (an exception of the code, a refused      *)
(* llm_query, a failed child) ends with the final-value flag set, the run  *)
(* returns the converted value; the step is logged without output and      *)
(* without error flag, followed by final_result and agent_end, and the     *)
(* transcript gets no further message.                                     *)
(***************************************************************************)
C37_Precedence ==
    (ExecutionEnds /\ ev'.raised /\ runs[ev'.run].finalSet)
    => LET rid == ev'.run
           r == runs[rid]
           r2 == runs'[rid]
       IN  /\ HasError(ev'.captured)
           /\ r2.pc = "done"
           /\ r2.err = ""
           /\ r2.result = toJs(r.finalVal)
           /\ r2.messages = r.messages
           /\ Len(log') = Len(log) + 3
           /\ LET e == log'[Len(log) + 1] IN
                 /\ IsStepEvent(e)
                 /\ e.run_id = rid
                 /\ e.step = r.i + 1
                 /\ ~e.hasOutput
                 /\ e.output = <<>>
                 /\ e.hasError = "none"
           /\ log'[Len(log) + 2] = logFinalResult(rid, r, r2.result)
           /\ log'[Len(log) + 3] = logAgentEnd(rid, r)

C37_FinalOverError == [][C37_Precedence]_vars

\* a run returned its value from a step whose code raised after calling a sentinel
C37_Witness ==
    /\ ev.ended
    /\ ev.raised
    /\ HasError(ev.captured)
    /\ runs[ev.run].pc = "done"
    /\ runs[ev.run].result # None
    /\ log[Len(log)].event_type = "agent_end"
    /\ log[Len(log)].run_id = ev.run

(***************************************************************************)
(* C38  Unknown cost and the money ceiling.  A response whose cost the     *)
(* provider did not report leaves the accumulated cost as it was, and a    *)
(* response whose reported cost alone is above max_money makes the run     *)
(* that received it fail with a budget error.                              *)
(***************************************************************************)
C38_Recorded ==
    ev'.op = "generate_code"
    => /\ ev'.usage.cost = Undefined => globalUsage'.cost = globalUsage.cost
       /\ (ev'.usage.cost # Undefined /\ ev'.usage.cost > MAX_MONEY_SPENT)
          => (runs'[ev'.run].pc = "failed" /\ runs'[ev'.run].err \in BudgetErrors)

C38_UnknownCostKeepsCeiling == [][C38_Recorded]_vars

(***************************************************************************)
(* C39  A token breach is sticky.  Once the accumulated completion or      *)
(* prompt tokens are above their ceiling they stay above it, and every     *)
(* model call that returns afterwards, in any run, makes that run fail     *)
(* with a budget error: no event is logged for the response, its code is   *)
(* not executed and the run's step counter stays where it was.             *)
(***************************************************************************)
Breached(g) ==
    \/ g.completion_tokens > MAX_COMPLETION_TOKENS
    \/ g.prompt_tokens > MAX_PROMPT_TOKENS

C39_Sticky == Breached(globalUsage) => Breached(globalUsage')

C39_CallFails ==
    (ev'.op = "generate_code" /\ Breached(globalUsage))
    => /\ runs'[ev'.run].pc = "failed"
       /\ runs'[ev'.run].err \in BudgetErrors
       /\ runs'[ev'.run].step = runs[ev'.run].step
       /\ log' = log

C39_NoWorkAfterBreach ==
    (Breached(globalUsage) /\ Len(runs') = Len(runs))
    => \A rid \in DOMAIN runs : runs[rid].pc = "llm" => runs'[rid].pc # "exec"

C39_BreachSticky == [][C39_Sticky /\ C39_CallFails /\ C39_NoWorkAfterBreach]_vars

\* after a child's call breached a ceiling, the root's next call adds no tokens
\* and fails all the same
C39_Witness ==
    /\ ev.op = "generate_code"
    /\ ev.run = 1
    /\ ev.usage.completion_tokens = 0
    /\ ev.usage.prompt_tokens = 0
    /\ BudgetFailed(1)
    /\ runs[1].step = 1
    /\ \E cid \in DOMAIN runs : cid # 1 /\ BudgetFailed(cid)

(***************************************************************************)
(* C40  Settlement is chunk-granular.  In a cohort of more than one        *)
(* member a submission's promise is settled only when every member of its  *)
(* own chunk has finished executing, the promises of a chunk are settled   *)
(* in one step, and no member of a later chunk has started while a         *)
(* promise of an earlier chunk is unsettled.  A member that finished       *)
(* early stays pending while a member of its chunk is still running.       *)
(***************************************************************************)
\* the members of chunk b of cohort k
C40_Chunk(k, b) ==
    {cohorts[k].batches[b][j] : j \in DOMAIN cohorts[k].batches[b]}

\* every member of chunk b of cohort k has been executed to the end
C40_Finished(k, b) ==
    \A q \in C40_Chunk(k, b) :
        \E e \in ExecsOf(k) : execs[e].q = q /\ execs[e].state # "running"

C40_AfterChunk ==
    \A k \in DOMAIN cohorts : \A b \in DOMAIN cohorts[k].batches :
        (Len(cohorts[k].members) > 1 /\ \E q \in C40_Chunk(k, b) : Settled(q))
        => /\ C40_Finished(k, b)
           /\ \A q \in C40_Chunk(k, b) : Settled(q)

C40_BeforeNext ==
    \A k \in DOMAIN cohorts : \A e \in ExecsOf(k) :
        \A b \in DOMAIN cohorts[k].batches :
            b < ChunkOf(k, execs[e].q) => \A q \in C40_Chunk(k, b) : Settled(q)

\* a promise changes state only in the step that ends the await of its chunk,
\* and that step is taken with the whole chunk finished
C40_Step ==
    \A k \in DOMAIN cohorts : \A b \in DOMAIN cohorts[k].batches :
        \A q \in C40_Chunk(k, b) :
            queries'[q].state # queries[q].state
            => /\ ev'.op = "settled"
               /\ C40_Finished(k, b)

C40_ChunkGranular == [](C40_AfterChunk /\ C40_BeforeNext) /\ [][C40_Step]_vars

\* first chunk of two settled, one promise resolved and one rejected, and the
\* third member, alone in the second chunk, is executing
C40_Witness ==
    /\ ev.op = "settled"
    /\ Len(cohorts) = 1
    /\ Len(cohorts[1].members) = 3
    /\ Len(cohorts[1].batches) = 2
    /\ cohorts[1].cur = 2
    /\ \E q1, q2 \in C40_Chunk(1, 1) :
           queries[q1].state = "resolved" /\ queries[q2].state = "rejected"
    /\ \A q \in C40_Chunk(1, 2) : ~Settled(q)
    /\ \E e \in RunningOf(1) : ChunkOf(1, execs[e].q) = 2

====
